---------------------------- MODULE Spec2Model ----------------------------
(***************************************************************************)
(* A model of the saturon colour engine: the process-wide registry tables  *)
(* (utils.ts, converters.ts), the graph/paths cache, and the Color object  *)
(* (Color.ts).  The repository holds two revisions of Color.ts:            *)
(* src/src/Color.ts and the one in src/unnamed/part_002.  The variable     *)
(* `build` says which of the two is linked; every Color operation is       *)
(* translated from both and dispatches on it.                              *)
(*                                                                         *)
(* JavaScript objects are modelled as property lists (sequences of         *)
(* [k, v] records in creation order), numbers as exact rationals           *)
(* <<numerator, denominator>>, with <<0,0>>, <<1,0>> and <<-1,0>> standing *)
(* for NaN, +Infinity and -Infinity.                                       *)
(***************************************************************************)
EXTENDS Integers, Sequences, FiniteSets

VARIABLES
    colorTypes,      \* converters.ts colorTypes: name -> ColorConverter
    colorBases,      \* converters.ts colorBases: keys (values alias colorTypes)
    colorFunctions,  \* converters.ts colorFunctions: keys (values alias colorTypes)
    colorModels,     \* converters.ts colorModels: name -> ColorModelConverter
    colorSpaces,     \* converters.ts colorSpaces: keys (values alias colorModels)
    namedColors,     \* converters.ts namedColors: name -> [r, g, b]
    fitMethods,      \* math.ts fitMethods: keys
    cache,           \* utils.ts cache: Map with the entries "graph" and "paths"
    build,           \* which revision of Color.ts is linked
    self,            \* the Color a method is called on  (a heap object)
    other,           \* the Color passed as `other`      (a heap object)
    ret,             \* the last call: its name, arguments and outcome
    config,          \* config.ts config: theme, systemColors (and what configure adds)
    plugins,         \* utils.ts plugins: the Set of plugin functions that ran
    objectPrototype, \* enumerable properties a program has put on Object.prototype
    results,         \* per plugin function: how each of its invocations ended
    frame            \* math.ts fitMethods: the locals of the bisection that runs

registry == <<colorTypes, colorBases, colorFunctions, colorModels, colorSpaces,
              namedColors, fitMethods>>
heap == <<self, other>>
ambient == <<build, config, plugins, objectPrototype, results, frame>>
vars == <<colorTypes, colorBases, colorFunctions, colorModels, colorSpaces,
          namedColors, fitMethods, cache, build, self, other, ret, config, plugins,
          objectPrototype, results, frame>>

-----------------------------------------------------------------------------
(* Bounds of the model. *)

\* user registrations that may be live at once in the converter tables
MaxUser == 1
\* arguments of one unregister(...types) call
MaxUnregArgs == 1
\* invocations of one plugin function that are followed
MaxResults == 3

-----------------------------------------------------------------------------
(* JavaScript objects as property lists. *)

Null == [null |-> TRUE]

\* Names every object inherits from Object.prototype; `k in obj` is true of them.
ObjectPrototype == {"constructor", "toString", "valueOf", "hasOwnProperty"}

\* Canonical array indices among the property names used here.
IndexKeys == {"7"}
IndexOf(k) == IF k = "7" THEN 7 ELSE 0

HasOwn(obj, k) == \E i \in DOMAIN obj : obj[i].k = k

\* The `in` operator: own properties and the prototype chain.
JsIn(k, obj) == HasOwn(obj, k) \/ k \in ObjectPrototype \/ HasOwn(objectPrototype, k)

Pos(obj, k) == CHOOSE i \in DOMAIN obj : obj[i].k = k

Get(obj, k) == obj[Pos(obj, k)].v

\* obj[k] = v : an existing property keeps its place, a new one is appended.
Put(obj, k, v) ==
    IF HasOwn(obj, k)
    THEN [obj EXCEPT ![Pos(obj, k)] = [k |-> k, v |-> v]]
    ELSE Append(obj, [k |-> k, v |-> v])

\* delete obj[k]
Delete(obj, k) == SelectSeq(obj, LAMBDA e : e.k # k)

RECURSIVE SortIndex(_)
SortIndex(ks) ==
    IF ks = {} THEN <<>>
    ELSE LET m == CHOOSE x \in ks : \A y \in ks : IndexOf(x) <= IndexOf(y)
         IN <<m>> \o SortIndex(ks \ {m})

\* Property enumeration order (for...in, Object.keys, Object.entries):
\* array-index keys in ascending order first, then the others in creation order.
OwnEntries(obj) ==
    LET idx == {obj[i].k : i \in {j \in DOMAIN obj : obj[j].k \in IndexKeys}}
        sorted == SortIndex(idx)
    IN [i \in 1..Len(sorted) |-> [k |-> sorted[i], v |-> Get(obj, sorted[i])]]
       \o SelectSeq(obj, LAMBDA e : e.k \notin IndexKeys)

Keys(obj) == LET es == OwnEntries(obj) IN [i \in 1..Len(es) |-> es[i].k]

KeySet(obj) == {obj[i].k : i \in DOMAIN obj}

\* Key-only tables (their values alias the entries of another table).
KeyObj(names) == [i \in 1..Len(names) |-> [k |-> names[i], v |-> TRUE]]

-----------------------------------------------------------------------------
(* Numbers: exact rationals <<n, d>> with d > 0 in lowest terms. *)

NaN == <<0, 0>>
Infinity == <<1, 0>>
NegInfinity == <<-1, 0>>

IsFinite(x) == x[2] # 0

AbsInt(n) == IF n < 0 THEN -n ELSE n

RECURSIVE Gcd(_, _)
Gcd(a, b) == IF b = 0 THEN a ELSE Gcd(b, a % b)

Rat(n, d) ==
    LET g == Gcd(AbsInt(n), AbsInt(d))
        s == IF d < 0 THEN -1 ELSE 1
    IN IF g = 0 THEN NaN ELSE <<(s * n) \div g, (s * d) \div g>>

N(n) == <<n, 1>>

Add(x, y) == Rat(x[1] * y[2] + y[1] * x[2], x[2] * y[2])
Sub(x, y) == Rat(x[1] * y[2] - y[1] * x[2], x[2] * y[2])
Mul(x, y) == Rat(x[1] * y[1], x[2] * y[2])
\* x / y for finite x and y; division by zero gives NaN or an infinity as in IEEE-754
Div(x, y) ==
    IF y[1] = 0
    THEN (IF x[1] = 0 THEN NaN ELSE IF x[1] > 0 THEN Infinity ELSE NegInfinity)
    ELSE Rat(x[1] * y[2], x[2] * y[1])

\* Comparisons follow IEEE-754: every comparison with NaN is false.
Lt(x, y) ==
    /\ x # NaN /\ y # NaN
    /\ IF IsFinite(x) /\ IsFinite(y) THEN x[1] * y[2] < y[1] * x[2]
       ELSE IF IsFinite(x) THEN y = Infinity
       ELSE IF IsFinite(y) THEN x = NegInfinity
       ELSE x = NegInfinity /\ y = Infinity
Le(x, y) == x # NaN /\ y # NaN /\ (x = y \/ Lt(x, y))

Abs(x) == IF x[1] < 0 THEN <<-x[1], x[2]>> ELSE x
\* Math.max / Math.min of two finite numbers
MathMax(x, y) == IF Lt(x, y) THEN y ELSE x
MathMin(x, y) == IF Lt(y, x) THEN y ELSE x

\* ((v % 360) + 360) % 360 for finite v: the representative of v in [0, 360)
Floor(x) == x[1] \div x[2]
Wrap360(v) == Sub(v, N(360 * Floor(Div(v, N(360)))))

\* x % y of JavaScript for finite x and y: the remainder has the sign of x
Trunc(x) == IF x[1] < 0 THEN -((-x[1]) \div x[2]) ELSE x[1] \div x[2]
JsRem(x, y) == IF y[1] = 0 THEN NaN ELSE Sub(x, Mul(y, N(Trunc(Div(x, y)))))

\* x ** n for an integer n >= 0
RECURSIVE IntPow(_, _)
IntPow(x, n) == IF n = 0 THEN N(1) ELSE Mul(x, IntPow(x, n - 1))

-----------------------------------------------------------------------------
(* Strings.  A colour string is a record: `form` is "hex" (# and digits),   *)
(* "call" (head(args) or color(space args)) or "ident" (a bare word).       *)
(* String functions are tabulated over the names the model uses.            *)

\* name.replace(/\s+/g, "-").toLowerCase()
HyphenLower(s) == CASE s = "My Fn" -> "my-fn" [] OTHER -> s
\* name.replace(/\s+/g, "").toLowerCase()
StripLower(s) == CASE s = "My Fn" -> "myfn" [] OTHER -> s
\* name.replace(/[^a-zA-Z]/g, "").toLowerCase()
LettersLower(s) ==
    CASE s = "My Fn" -> "myfn" [] s = "Sea 2" -> "sea" [] s = "7" -> "" [] OTHER -> s
\* name.trim().replace(/\s+/g, "-").toLowerCase()
TrimHyphenLower(s) == HyphenLower(s)
\* model.trim().toLowerCase()
TrimLower(s) == CASE s = "My Fn" -> "my fn" [] s = "XYZ" -> "xyz" [] OTHER -> s
\* key.toLowerCase() of a component name
LowerKey(s) == CASE s = "H" -> "h" [] s = "None" -> "none" [] OTHER -> s

Hex(digits) == [form |-> "hex", head |-> "#", space |-> "", args |-> digits]
Call(head, args) == [form |-> "call", head |-> head, space |-> "", args |-> args]
ColorCall(space, args) == [form |-> "call", head |-> "color", space |-> space, args |-> args]
Ident(word) == [form |-> "ident", head |-> word, space |-> "", args |-> <<>>]

\* color(space calc(...) calc(...) calc(...)): `calc` holds the expression of
\* each component
CalcCall(space, calcs) ==
    [form |-> "call", head |-> "color", space |-> space, args |-> <<>>, calc |-> calcs]

\* color-mix(in <model> [<hue> hue], <part>, <part>) and light-dark(<color>, ...)
ColorMix(model, hue, part1, part2) ==
    [form |-> "call", head |-> "color-mix", space |-> "", args |-> <<>>,
     in |-> model, hue |-> hue, parts |-> <<part1, part2>>]
LightDark(parts) ==
    [form |-> "call", head |-> "light-dark", space |-> "", args |-> <<>>, parts |-> parts]

\* A part of color-mix: a colour and its weight.  The weight is absent, a
\* percentage written before the colour or after it, or a calc() after it.  The
\* text of a percentage is its sign, its integer digits and its fraction digits
\* (the fraction 0 stands for a text without a dot).
Part(color, weight) == [color |-> color, weight |-> weight]
Percent(neg, whole, frac) == [neg |-> neg, whole |-> whole, frac |-> frac]
NoWeight == [at |-> "none"]
Leading(text) == [at |-> "leading", text |-> text]
Trailing(text) == [at |-> "trailing", text |-> text]
CalcWeight == [at |-> "calc"]

-----------------------------------------------------------------------------
(* The built-in tables of converters.ts. *)

Range(min, max) == [kind |-> "range", min |-> min, max |-> max]
Angle == [kind |-> "angle", min |-> N(0), max |-> N(360)]
Percentage == [kind |-> "percentage", min |-> N(0), max |-> N(100)]

Def(index, value, precision) == [index |-> index, value |-> value, precision |-> precision]

\* { index: 3, value: [0, 1], precision: 3 }
AlphaDef == Def(3, Range(N(0), N(1)), 3)

Components(n1, d1, n2, d2, n3, d3) ==
    <<[k |-> n1, v |-> d1], [k |-> n2, v |-> d2], [k |-> n3, v |-> d3]>>

\* A conversion function: a built-in of math.ts named by `fn`, or a matrix
\* product / scaling by the rational `k` ("scale", k = 1 is the identity matrix).
Fn(name) == [fn |-> name, k |-> N(1)]
Scale(k) == [fn |-> "scale", k |-> k]

ModelConverter(comps, bridge, toB, fromB, legacy, variant, gamut) ==
    [components |-> comps, bridge |-> bridge, toBridge |-> toB, fromBridge |-> fromB,
     supportsLegacy |-> legacy, alphaVariant |-> variant, targetGamut |-> gamut]

\* spaceConverterToModelConverter(name, converter)
spaceConverterToModelConverter(name, comps, bridge, toB, fromB, gamutNull) ==
    ModelConverter(
        [i \in 1..Len(comps) |->
            [k |-> comps[i], v |-> Def(i - 1, Range(N(0), N(1)), 5)]],
        bridge, toB, fromB, FALSE, "",
        IF gamutNull THEN "null" ELSE name)

Space(name, c, bridge, toB, fromB, gamutNull) ==
    [k |-> name,
     v |-> spaceConverterToModelConverter(name, c, bridge, toB, fromB, gamutNull)]

Identity == Scale(N(1))

colorSpaces0 ==
    << Space("srgb", <<"r", "g", "b">>, "xyz-d65",
             Fn("SRGB_to_XYZD65"), Fn("XYZD65_to_SRGB"), FALSE),
       Space("srgb-linear", <<"r", "g", "b">>, "xyz-d65",
             Fn("SRGB_to_XYZD65 linear"), Fn("XYZD65_to_SRGB linear"), FALSE),
       Space("display-p3", <<"r", "g", "b">>, "xyz-d65",
             Fn("P3_to_XYZD65"), Fn("XYZD65_to_P3"), FALSE),
       Space("rec2020", <<"r", "g", "b">>, "xyz-d65",
             Fn("REC2020_to_XYZD65"), Fn("XYZD65_to_REC2020"), FALSE),
       Space("a98-rgb", <<"r", "g", "b">>, "xyz-d65",
             Fn("A98_to_XYZD65"), Fn("XYZD65_to_A98"), FALSE),
       Space("prophoto-rgb", <<"r", "g", "b">>, "xyz-d50",
             Fn("ProPhoto_to_XYZD50"), Fn("XYZD50_to_ProPhoto"), FALSE),
       Space("xyz-d65", <<"x", "y", "z">>, "xyz-d65", Identity, Identity, TRUE),
       Space("xyz-d50", <<"x", "y", "z">>, "xyz-d65",
             Fn("D50_to_D65"), Fn("D65_to_d50"), TRUE),
       Space("xyz", <<"x", "y", "z">>, "xyz-d65", Identity, Identity, TRUE) >>

colorModels0 ==
    << [k |-> "rgb", v |-> ModelConverter(
            Components("r", Def(0, Range(N(0), N(255)), 0),
                       "g", Def(1, Range(N(0), N(255)), 0),
                       "b", Def(2, Range(N(0), N(255)), 0)),
            "xyz-d65", Fn("RGB_to_XYZD65"), Fn("XYZD65_to_RGB"), TRUE, "rgba", "")],
       [k |-> "hsl", v |-> ModelConverter(
            Components("h", Def(0, Angle, 1), "s", Def(1, Percentage, 1),
                       "l", Def(2, Percentage, 1)),
            "rgb", Fn("HSL_to_RGB"), Fn("RGB_to_HSL"), TRUE, "hsla", "")],
       [k |-> "hwb", v |-> ModelConverter(
            Components("h", Def(0, Angle, 1), "w", Def(1, Percentage, 1),
                       "b", Def(2, Percentage, 1)),
            "rgb", Fn("HWB_to_RGB"), Fn("RGB_to_HWB"), FALSE, "", "")],
       [k |-> "lab", v |-> ModelConverter(
            Components("l", Def(0, Percentage, 5), "a", Def(1, Range(N(-125), N(125)), 5),
                       "b", Def(2, Range(N(-125), N(125)), 5)),
            "xyz-d50", Fn("LAB_to_XYZD50"), Fn("XYZD50_to_LAB"), FALSE, "", "null")],
       [k |-> "lch", v |-> ModelConverter(
            Components("l", Def(0, Percentage, 5), "c", Def(1, Range(N(0), N(150)), 5),
                       "h", Def(2, Angle, 5)),
            "lab", Fn("LCH_to_LAB"), Fn("LAB_to_LCH"), FALSE, "", "null")],
       [k |-> "oklab", v |-> ModelConverter(
            Components("l", Def(0, Range(N(0), N(1)), 5),
                       "a", Def(1, Range(Rat(-2, 5), Rat(2, 5)), 5),
                       "b", Def(2, Range(Rat(-2, 5), Rat(2, 5)), 5)),
            "xyz-d65", Fn("OKLAB_to_XYZD65"), Fn("XYZD65_to_OKLAB"), FALSE, "", "null")],
       [k |-> "oklch", v |-> ModelConverter(
            Components("l", Def(0, Range(N(0), N(1)), 5),
                       "c", Def(1, Range(N(0), Rat(2, 5)), 5), "h", Def(2, Angle, 5)),
            "oklab", Fn("OKLCH_to_OKLAB"), Fn("OKLAB_to_OKLCH"), FALSE, "", "null")] >>
    \o colorSpaces0

\* A ColorConverter.  `kind` names the closure; for "user" converters isValid
\* accepts the strings whose form is in `accepts` and parse returns `result`
\* (<<>>: it throws).  `out` says whether fromBridge and format are present.
Converter(kind, bridge, out) ==
    [kind |-> kind, bridge |-> bridge, toBridge |-> Identity, accepts |-> {},
     result |-> <<>>, out |-> out]

\* modelConverterToColorConverter(name, converter): the closure over the model
modelConverterToColorConverter(name, converter) ==
    Converter("function", converter.bridge, TRUE)

colorFunctions0 ==
    [i \in 1..Len(colorModels0) |->
        [k |-> colorModels0[i].k,
         v |-> modelConverterToColorConverter(colorModels0[i].k, colorModels0[i].v)]]

colorBases0 ==
    <<[k |-> "hex-color", v |-> Converter("hex-color", "rgb", TRUE)]>>
    \o colorFunctions0
    \o <<[k |-> "named-color", v |-> Converter("named-color", "rgb", TRUE)],
         [k |-> "color-mix", v |-> Converter("color-mix", "rgb", FALSE)],
         [k |-> "transparent", v |-> Converter("transparent", "rgb", FALSE)]>>

colorTypes0 ==
    colorBases0
    \o <<[k |-> "currentColor", v |-> Converter("currentColor", "rgb", FALSE)],
         [k |-> "system-color", v |-> Converter("system-color", "rgb", FALSE)],
         [k |-> "contrast-color", v |-> Converter("contrast-color", "rgb", FALSE)],
         [k |-> "device-cmyk", v |-> Converter("device-cmyk", "rgb", TRUE)],
         [k |-> "light-dark", v |-> Converter("light-dark", "rgb", FALSE)]>>

\* An excerpt of the 148 named colours (aqua and cyan share one triple).
namedColors0 ==
    <<[k |-> "aqua", v |-> <<0, 255, 255>>],
      [k |-> "black", v |-> <<0, 0, 0>>],
      [k |-> "cyan", v |-> <<0, 255, 255>>],
      [k |-> "red", v |-> <<255, 0, 0>>],
      [k |-> "white", v |-> <<255, 255, 255>>]>>

fitMethods0 ==
    <<[k |-> "chroma-reduction", v |-> "chroma-reduction"],
      [k |-> "css-gamut-map", v |-> "css-gamut-map"]>>

AliasOf(obj) == KeyObj(Keys(obj))

\* JavaScript values held in the configuration: a string, an array (its
\* elements as a sequence), an object (a property list), null
Str(s) == [t |-> "string", s |-> s]
Arr(a) == [t |-> "array", a |-> a]
Obj(o) == [t |-> "object", o |-> o]
JsNull == [t |-> "null"]
JsUndefined == [t |-> "undefined"]

\* config.ts systemColors (an excerpt): name -> [light, dark]
systemColors ==
    <<[k |-> "AccentColor", v |-> Arr(<<<<0, 120, 215>>, <<10, 132, 255>>>>)],
      [k |-> "Canvas", v |-> Arr(<<<<255, 255, 255>>, <<30, 30, 30>>>>)],
      [k |-> "CanvasText", v |-> Arr(<<<<0, 0, 0>>, <<255, 255, 255>>>>)],
      [k |-> "LinkText", v |-> Arr(<<<<0, 0, 255>>, <<0, 128, 255>>>>)]>>

\* config.ts config
config0 == <<[k |-> "theme", v |-> Str("light")], [k |-> "systemColors", v |-> Obj(systemColors)]>>

-----------------------------------------------------------------------------
(* utils.ts configure.                                                       *)

\* for (const key in source): the own keys, then the enumerable keys inherited
\* from Object.prototype
ForIn(source, proto) == OwnEntries(source) \o SelectSeq(proto, LAMBDA e : ~HasOwn(source, e.k))

\* target[key] as merge reads it, through the prototype chain.  The key
\* "__proto__" reads Object.prototype itself; a method of Object.prototype is a
\* function.
Read(target, key, proto) ==
    IF HasOwn(target, key) THEN Get(target, key)
    ELSE IF key = "__proto__" THEN [t |-> "Object.prototype"]
    ELSE IF HasOwn(proto, key) THEN [t |-> "inherited", v |-> Get(proto, key)]
    ELSE IF key \in ObjectPrototype THEN [t |-> "function"]
    ELSE JsUndefined

\* merge(target, source), the loop over the keys of source that are left;
\* `proto` holds the enumerable properties of Object.prototype.  Yields the
\* properties of target and of Object.prototype after the loop.  An object of
\* source is merged into what target[key] reads: an own object, Object.prototype
\* (the key "__proto__"), an object inherited from it, or a fresh {}.
RECURSIVE merge(_, _, _)
merge(target, entries, proto) ==
    IF entries = <<>> THEN [o |-> target, proto |-> proto]
    ELSE LET key == Head(entries).k
             sv == Head(entries).v
             tv == Read(target, key, proto)
             nested(obj) == merge(obj, ForIn(sv.o, proto), proto)
         IN CASE sv.t = "object" /\ tv.t = "object" ->
                    merge(Put(target, key, Obj(nested(tv.o).o)), Tail(entries), nested(tv.o).proto)
              [] sv.t = "object" /\ tv.t = "Object.prototype" ->
                    merge(target, Tail(entries), merge(proto, OwnEntries(sv.o), <<>>).o)
              [] sv.t = "object" /\ tv.t = "inherited" /\ tv.v.t = "object" ->
                    merge(target, Tail(entries),
                          Put(nested(tv.v.o).proto, key, Obj(nested(tv.v.o).o)))
              [] sv.t = "object" /\ tv.t \in {"string", "null", "undefined", "function"} ->
                    merge(Put(target, key, Obj(nested(<<>>).o)), Tail(entries), nested(<<>>).proto)
              [] sv.t = "object" /\ tv.t = "inherited" /\ tv.v.t \in {"string", "null"} ->
                    merge(Put(target, key, Obj(nested(<<>>).o)), Tail(entries), nested(<<>>).proto)
              [] sv.t \in {"string", "array", "null"} /\ key # "__proto__" ->
                    merge(Put(target, key, sv), Tail(entries), proto)
              [] sv.t = "undefined" -> merge(target, Tail(entries), proto)

-----------------------------------------------------------------------------
(* The outcome of a call. *)

\* `name` is the normalized name of a registration, `arg` the argument as given
Returned(op, name, arg, value) ==
    [op |-> op, status |-> "ok", error |-> "", name |-> name, arg |-> arg,
     value |-> value]
Thrown(op, name, arg, error) ==
    [op |-> op, status |-> "throw", error |-> error, name |-> name, arg |-> arg,
     value |-> <<>>]

\* History, kept in the record of a registration: the keys the call found in
\* the cache.
Found == Keys(cache)

\* a registry that forgets to drop the cached graph and paths
KeepCache(c) == c

\* cache.delete("graph"); cache.delete("paths")
Invalidate(c) == Delete(Delete(c, "graph"), "paths")

UserCount == Cardinality(KeySet(colorTypes) \ KeySet(colorTypes0))

-----------------------------------------------------------------------------
(* utils.ts: the registration entry points. *)

\* The checks registerColorType and registerColorBase make on a converter;
\* "" when it passes.
ConverterError(c) ==
    IF c.shape = "null" THEN "Converter must be a non-null object."
    ELSE IF c.shape = "noParse" THEN "Converter.parse must be a function."
    ELSE IF c.shape = "formatOnly"
        THEN "Converter.fromBridge and Converter.format must either both be provided or both be omitted."
    ELSE IF ~JsIn(c.bridge, colorModels)
        THEN "Converter.bridge does not correspond to any registered color model."
    ELSE ""

UserConverter(c) ==
    [kind |-> "user", bridge |-> c.bridge, toBridge |-> c.toBridge,
     accepts |-> c.accepts, result |-> c.result, out |-> c.out]

registerColorType(name, c) ==
    LET n == HyphenLower(name)
        err == ConverterError(c)
    IN IF JsIn(n, colorTypes)
       THEN /\ ret' = Thrown("registerColorType", n, name, "The name is already used.")
            /\ UNCHANGED <<registry, cache, ambient, heap>>
       ELSE IF err # ""
       THEN /\ ret' = Thrown("registerColorType", n, name, err)
            /\ UNCHANGED <<registry, cache, ambient, heap>>
       ELSE /\ colorTypes' = Put(colorTypes, n, UserConverter(c))
            /\ cache' = Invalidate(cache)
            /\ ret' = Returned("registerColorType", n, name, Found)
            /\ UNCHANGED <<colorBases, colorFunctions, colorModels, colorSpaces,
                           namedColors, fitMethods, ambient, heap>>

registerColorBase(name, c) ==
    LET n == HyphenLower(name)
        err == ConverterError(c)
    IN IF JsIn(n, colorTypes)
       THEN /\ ret' = Thrown("registerColorBase", n, name, "The name is already used.")
            /\ UNCHANGED <<registry, cache, ambient, heap>>
       ELSE IF err # ""
       THEN /\ ret' = Thrown("registerColorBase", n, name, err)
            /\ UNCHANGED <<registry, cache, ambient, heap>>
       ELSE /\ colorBases' = Put(colorBases, n, TRUE)
            /\ colorTypes' = Put(colorTypes, n, UserConverter(c))
            /\ cache' = Invalidate(cache)
            /\ ret' = Returned("registerColorBase", n, name, Found)
            /\ UNCHANGED <<colorFunctions, colorModels, colorSpaces,
                           namedColors, fitMethods, ambient, heap>>

\* for (const key of Object.keys(components)) normalized[key.toLowerCase()] = components[key]
RECURSIVE NormalizeComponents(_, _)
NormalizeComponents(entries, acc) ==
    IF entries = <<>> THEN acc
    ELSE NormalizeComponents(Tail(entries),
                             Put(acc, LowerKey(Head(entries).k), Head(entries).v))

\* The checks registerColorFunction makes after the name check; "" when it passes.
ModelConverterError(c, componentNames) ==
    IF c.shape = "noToBridge" THEN "Converter.toBridge must be a function."
    ELSE IF ~JsIn(c.bridge, colorModels)
        THEN "Converter.bridge does not correspond to any registered color model."
    ELSE IF Cardinality({componentNames[i] : i \in DOMAIN componentNames})
                # Len(componentNames)
        THEN "Converter.components must have unique component names."
    ELSE IF \E i \in DOMAIN componentNames : componentNames[i] = "none"
        THEN "Converter.components cannot have a component named none."
    ELSE ""

registerColorFunction(name, c) ==
    LET n == StripLower(name)
        normalized == NormalizeComponents(OwnEntries(c.components), <<>>)
        err == ModelConverterError(c, Keys(normalized))
        converter == ModelConverter(normalized, c.bridge, c.toBridge, c.fromBridge,
                                    c.supportsLegacy, c.alphaVariant, c.targetGamut)
    IN IF c.shape = "noComponents"
       THEN /\ ret' = Thrown("registerColorFunction", n, name,
                             "Converter.components must be a non-null object.")
            /\ UNCHANGED <<registry, cache, ambient, heap>>
       ELSE IF JsIn(n, colorTypes)
       THEN /\ ret' = Thrown("registerColorFunction", n, name, "The name is already used.")
            /\ UNCHANGED <<registry, cache, ambient, heap>>
       ELSE IF err # ""
       THEN /\ ret' = Thrown("registerColorFunction", n, name, err)
            /\ UNCHANGED <<registry, cache, ambient, heap>>
       ELSE /\ colorModels' = Put(colorModels, n, converter)
            /\ colorFunctions' = Put(colorFunctions, n, TRUE)
            /\ colorTypes' = Put(colorTypes, n, modelConverterToColorConverter(n, converter))
            /\ cache' = Invalidate(cache)
            /\ ret' = Returned("registerColorFunction", n, name, Found)
            /\ UNCHANGED <<colorBases, colorSpaces, namedColors, fitMethods, ambient, heap>>

\* The checks registerColorSpace makes after the name check; "" when it passes.
SpaceConverterError(c) ==
    IF c.shape = "badComponents" THEN "Converter.components must be an array of strings."
    ELSE IF c.shape = "badMatrix" THEN "Converter.toBridgeMatrix must be a 2D array of numbers."
    ELSE IF ~JsIn(c.bridge, colorModels)
        THEN "Converter.bridge does not correspond to any registered color model."
    ELSE ""

\* a registerColorSpace that does not look the name up before it stores
registerColorSpaceUnchecked(name, c) ==
    LET n == HyphenLower(name)
        modelConv == spaceConverterToModelConverter(n, c.components, c.bridge,
                         c.toBridge, c.fromBridge, c.gamutNull)
    IN /\ colorSpaces' = Put(colorSpaces, n, TRUE)
       /\ colorModels' = Put(colorModels, n, modelConv)
       /\ colorFunctions' = Put(colorFunctions, n, TRUE)
       /\ colorTypes' = Put(colorTypes, n, modelConverterToColorConverter(n, modelConv))
       /\ cache' = Invalidate(cache)
       /\ ret' = Returned("registerColorSpace", n, name, Found)
       /\ UNCHANGED <<colorBases, namedColors, fitMethods, ambient, heap>>

registerColorSpace(name, c) ==
    LET n == HyphenLower(name)
        err == SpaceConverterError(c)
        modelConv == spaceConverterToModelConverter(n, c.components, c.bridge,
                         c.toBridge, c.fromBridge, c.gamutNull)
    IN IF JsIn(n, colorTypes)
       THEN /\ ret' = Thrown("registerColorSpace", n, name, "The name is already used.")
            /\ UNCHANGED <<registry, cache, ambient, heap>>
       ELSE IF err # ""
       THEN /\ ret' = Thrown("registerColorSpace", n, name, err)
            /\ UNCHANGED <<registry, cache, ambient, heap>>
       ELSE /\ colorSpaces' = Put(colorSpaces, n, TRUE)
            /\ colorModels' = Put(colorModels, n, modelConv)
            /\ colorFunctions' = Put(colorFunctions, n, TRUE)
            /\ colorTypes' = Put(colorTypes, n, modelConverterToColorConverter(n, modelConv))
            /\ cache' = Invalidate(cache)
            /\ ret' = Returned("registerColorSpace", n, name, Found)
            /\ UNCHANGED <<colorBases, namedColors, fitMethods, ambient, heap>>

registerNamedColor(name, rgb) ==
    LET n == LettersLower(name)
        duplicate == \E i \in DOMAIN namedColors :
                        \A j \in DOMAIN namedColors[i].v : namedColors[i].v[j] = rgb[j]
    IN IF Len(rgb) # 3
       THEN /\ ret' = Thrown("registerNamedColor", n, name,
                             "RGB value must be an array of exactly three numbers.")
            /\ UNCHANGED <<registry, cache, ambient, heap>>
       ELSE IF JsIn(n, namedColors)
       THEN /\ ret' = Thrown("registerNamedColor", n, name, "named-color is already registered.")
            /\ UNCHANGED <<registry, cache, ambient, heap>>
       ELSE IF duplicate
       THEN /\ ret' = Thrown("registerNamedColor", n, name, "RGB value is already registered.")
            /\ UNCHANGED <<registry, cache, ambient, heap>>
       ELSE /\ namedColors' = Put(namedColors, n, rgb)
            /\ ret' = Returned("registerNamedColor", n, name, Found)
            /\ UNCHANGED <<colorTypes, colorBases, colorFunctions, colorModels,
                           colorSpaces, fitMethods, cache, ambient, heap>>

registerFitMethod(name, method) ==
    LET n == TrimHyphenLower(name)
    IN IF JsIn(n, fitMethods)
       THEN /\ ret' = Thrown("registerFitMethod", n, name, "Fit method already exists.")
            /\ UNCHANGED <<registry, cache, ambient, heap>>
       ELSE IF method = "not a function"
       THEN /\ ret' = Thrown("registerFitMethod", n, name, "Fit method must be a function.")
            /\ UNCHANGED <<registry, cache, ambient, heap>>
       ELSE /\ fitMethods' = Put(fitMethods, n, method)
            /\ ret' = Returned("registerFitMethod", n, name, Found)
            /\ UNCHANGED <<colorTypes, colorBases, colorFunctions, colorModels,
                           colorSpaces, namedColors, cache, ambient, heap>>

\* for (const type of types) delete obj[type]
RECURSIVE DeleteAll(_, _)
DeleteAll(obj, types) ==
    IF types = <<>> THEN obj ELSE DeleteAll(Delete(obj, Head(types)), Tail(types))

\* The registration entry points.
RegisterOps ==
    {"registerColorType", "registerColorBase", "registerColorFunction",
     "registerColorSpace", "registerNamedColor", "registerFitMethod"}

\* History, kept in the record of an unregister call: the successful
\* registration the call directly follows, as <<entry point, name stored,
\* name given>>, or <<>>.
Preceding ==
    IF ret.op \in RegisterOps /\ ret.status = "ok"
    THEN <<ret.op, ret.name, ret.arg>> ELSE <<>>

\* an unregister that deletes from colorTypes alone
unregisterTypesOnly(types) ==
    /\ colorTypes' = DeleteAll(colorTypes, types)
    /\ cache' = Invalidate(cache)
    /\ ret' = Returned("unregister", "", types, Preceding)
    /\ UNCHANGED <<colorBases, colorFunctions, colorModels, colorSpaces, namedColors,
                   fitMethods, ambient, heap>>

\* unregister(...types)
unregister(types) ==
    /\ colorTypes' = DeleteAll(colorTypes, types)
    /\ colorBases' = DeleteAll(colorBases, types)
    /\ colorFunctions' = DeleteAll(colorFunctions, types)
    /\ colorModels' = DeleteAll(colorModels, types)
    /\ colorSpaces' = DeleteAll(colorSpaces, types)
    /\ cache' = Invalidate(cache)
    /\ ret' = Returned("unregister", "", types, Preceding)
    /\ UNCHANGED <<namedColors, fitMethods, ambient, heap>>

\* configure(options)
configure(options) ==
    LET merged == merge(config, ForIn(options, objectPrototype), objectPrototype)
    IN /\ config' = merged.o
       /\ objectPrototype' = merged.proto
       /\ ret' = Returned("configure", "", options, <<>>)
       /\ UNCHANGED <<registry, cache, build, plugins, results, frame, heap>>

-----------------------------------------------------------------------------
(* utils.ts use.  A plugin is a function of the program, named here by what  *)
(* it does when it is invoked: "pluginA" and "pluginB" return, "badPlugin"   *)
(* throws, "onceBad" throws the first time it is invoked and returns after.  *)
(* "notAFunction" is a string handed to use() in place of a function.        *)

PluginFunctions == {"pluginA", "pluginB", "badPlugin", "onceBad"}

\* typeof plugin === "function"
IsFunction(plugin) == plugin \in PluginFunctions

\* plugin(Color) throws
Raises(plugin, res) ==
    plugin = "badPlugin" \/ (plugin = "onceBad" /\ res[plugin] = <<>>)

\* the loop of use() without the test plugins.has(plugin)
RECURSIVE RunPluginsAgain(_, _, _, _)
RunPluginsAgain(pluginFns, i, set, res) ==
    IF i > Len(pluginFns) THEN [plugins |-> set, results |-> res, error |-> ""]
    ELSE LET plugin == pluginFns[i]
         IN IF ~IsFunction(plugin)
            THEN [plugins |-> set, results |-> res,
                  error |-> "TypeError: Plugin is not a function"]
            ELSE IF Raises(plugin, res)
            THEN RunPluginsAgain(pluginFns, i + 1, set,
                                 [res EXCEPT ![plugin] = Append(@, "throw")])
            ELSE RunPluginsAgain(pluginFns, i + 1, set \cup {plugin},
                                 [res EXCEPT ![plugin] = Append(@, "return")])

\* the loop of use() without try and catch: a plugin that throws ends the call
RECURSIVE RunPluginsUncaught(_, _, _, _)
RunPluginsUncaught(pluginFns, i, set, res) ==
    IF i > Len(pluginFns) THEN [plugins |-> set, results |-> res, error |-> ""]
    ELSE LET plugin == pluginFns[i]
         IN IF ~IsFunction(plugin)
            THEN [plugins |-> set, results |-> res,
                  error |-> "TypeError: Plugin is not a function"]
            ELSE IF plugin \in set
            THEN RunPluginsUncaught(pluginFns, i + 1, set, res)
            ELSE IF Raises(plugin, res)
            THEN [plugins |-> set, results |-> [res EXCEPT ![plugin] = Append(@, "throw")],
                  error |-> "plugin fail"]
            ELSE RunPluginsUncaught(pluginFns, i + 1, set \cup {plugin},
                                    [res EXCEPT ![plugin] = Append(@, "return")])

\* for (const [i, plugin] of pluginFns.entries()) { ... } from the index i on
RECURSIVE RunPlugins(_, _, _, _)
RunPlugins(pluginFns, i, set, res) ==
    IF i > Len(pluginFns) THEN [plugins |-> set, results |-> res, error |-> ""]
    ELSE LET plugin == pluginFns[i]
         IN IF ~IsFunction(plugin)
            THEN [plugins |-> set, results |-> res,
                  error |-> "TypeError: Plugin is not a function"]
            ELSE IF plugin \in set
            THEN RunPlugins(pluginFns, i + 1, set, res)
            ELSE IF Raises(plugin, res)
            THEN RunPlugins(pluginFns, i + 1, set,
                            [res EXCEPT ![plugin] = Append(@, "throw")])
            ELSE RunPlugins(pluginFns, i + 1, set \cup {plugin},
                            [res EXCEPT ![plugin] = Append(@, "return")])

\* use(...pluginFns)
use(pluginFns) ==
    IF Len(pluginFns) = 0
    THEN /\ ret' = Thrown("use", "", pluginFns, "use() requires at least one plugin.")
         /\ UNCHANGED <<registry, cache, ambient, heap>>
    ELSE LET run == RunPlugins(pluginFns, 1, plugins, results)
         IN /\ plugins' = run.plugins
            /\ results' = run.results
            /\ ret' = IF run.error = "" THEN Returned("use", "", pluginFns, <<>>)
                      ELSE Thrown("use", "", pluginFns, run.error)
            /\ UNCHANGED <<registry, cache, build, config, objectPrototype, frame, heap>>

-----------------------------------------------------------------------------
(* Color.ts: results of calls that run inside one operation.  A call works   *)
(* on `st`, the part of the process state a Color operation can write: the   *)
(* model table and the cache.                                                *)

St(models, c) == [models |-> models, cache |-> c]

\* `exact` is FALSE when the call went through a conversion of math.ts that has
\* no rational value (the transfer functions, the cube roots, the trigonometry).
Ok(value, st) ==
    [status |-> "ok", error |-> "", value |-> value, st |-> st, exact |-> TRUE]
Err(error, st) ==
    [status |-> "throw", error |-> error, value |-> <<>>, st |-> st, exact |-> TRUE]

\* const r = <call>; <rest>: the rest runs when the call has returned, and what
\* the call throws is thrown on
Then(r, rest(_)) == IF r.status = "throw" THEN r ELSE rest(r)

\* components.alpha = { index: 3, value: [0, 1], precision: 3 } on the
\* component map of the registered model `model`
InjectAlpha(st, model) ==
    LET conv == Get(st.models, model)
    IN [st EXCEPT !.models =
           Put(@, model, [conv EXCEPT !.components = Put(@, "alpha", AlphaDef)])]

\* new Color(model, coords).  `ref` is the identity of the object: "new" for
\* one allocated by the running call, "self" and "other" for the two the
\* caller holds.
Color(model, coords, st) ==
    IF ~JsIn(model, st.models)
    THEN Err("Unsupported color model", st)
    ELSE IF Len(coords) < 3 \/ Len(coords) > 4
    THEN Err("Coordinates array must have 3 or 4 elements.", st)
    ELSE Ok([ref |-> "new", model |-> model,
             coords |-> IF Len(coords) = 3 THEN Append(coords, N(1)) ELSE coords], st)

\* .replace(/[A-Z]/g, ...) of clean(), over the words the model uses
ToLowerCase(s) ==
    CASE s = "RED" -> "red" [] s = "XYZ" -> "xyz" [] s = "AccentColor" -> "accentcolor"
      [] s = "Canvas" -> "canvas" [] s = "CanvasText" -> "canvastext"
      [] s = "LinkText" -> "linktext" [] OTHER -> s

\* String.fromCharCode(c.charCodeAt(0) + 32) of a character of a hex string
LowerChar(ch) ==
    CASE ch = "A" -> "a" [] ch = "B" -> "b" [] ch = "C" -> "c" [] ch = "D" -> "d"
      [] ch = "E" -> "e" [] ch = "F" -> "f" [] ch = "G" -> "g" [] OTHER -> ch

clean(color) ==
    [color EXCEPT !.head = ToLowerCase(@), !.space = ToLowerCase(@),
                  !.args = IF color.form = "hex" THEN [i \in DOMAIN @ |-> LowerChar(@[i])]
                           ELSE @]

\* Object.keys(config.systemColors).find((k) => k.toLowerCase() === str), "" for
\* undefined.  config.systemColors is read as the program left it.
SystemColorKey(str) ==
    LET table == Get(config, "systemColors").o
        found == {i \in DOMAIN table : ToLowerCase(table[i].k) = str}
    IN IF Get(config, "systemColors").t # "object" \/ found = {} THEN ""
       ELSE table[CHOOSE i \in found : \A j \in found : i <= j].k

\* colorTypes[type].isValid(str)
isValid(type, c, str, models) ==
    CASE c.kind = "hex-color" -> str.form = "hex"
      [] c.kind = "function" ->
            LET converter == Get(models, type)
                alphaVariant == IF converter.alphaVariant = "" THEN type
                                ELSE converter.alphaVariant
            IN /\ str.form = "call"
               /\ IF JsIn(type, colorSpaces)
                  THEN str.head = "color" /\ str.space = type
                  ELSE str.space = "" /\ str.head \in {type, alphaVariant}
      [] c.kind = "named-color" -> str.form = "ident" /\ HasOwn(namedColors, str.head)
      [] c.kind = "transparent" -> str.form = "ident" /\ str.head = "transparent"
      [] c.kind = "currentColor" -> str.form = "ident" /\ str.head = "currentcolor"
      [] c.kind = "system-color" -> str.form = "ident" /\ SystemColorKey(str.head) # ""
      [] c.kind = "user" -> str.form \in c.accepts
      [] OTHER -> str.form = "call" /\ str.space = "" /\ str.head = c.kind

\* parseInt(ch, 16) of one hex digit; -1 for a character that is not one
HexDigit(ch) ==
    CASE ch = "0" -> 0 [] ch = "1" -> 1 [] ch = "2" -> 2 [] ch = "3" -> 3 [] ch = "4" -> 4
      [] ch = "5" -> 5 [] ch = "6" -> 6 [] ch = "7" -> 7 [] ch = "8" -> 8 [] ch = "9" -> 9
      [] ch \in {"a", "A"} -> 10 [] ch \in {"b", "B"} -> 11 [] ch \in {"c", "C"} -> 12
      [] ch \in {"d", "D"} -> 13 [] ch \in {"e", "E"} -> 14 [] ch \in {"f", "F"} -> 15
      [] OTHER -> -1

\* colorBases["hex-color"].parse
ParseHex(HEX, st) ==
    LET d(i) == HexDigit(HEX[i])
        expand(i) == N(17 * d(i))
        pair(i) == N(16 * d(i) + d(i + 1))
    IN IF Len(HEX) \notin {3, 4, 6, 8} THEN Err("Invalid hex color length.", st)
       ELSE IF \E i \in DOMAIN HEX : d(i) = -1 THEN Err("Invalid hex color character.", st)
       ELSE IF Len(HEX) = 3 THEN Ok(<<expand(1), expand(2), expand(3), N(1)>>, st)
       ELSE IF Len(HEX) = 4
            THEN Ok(<<expand(1), expand(2), expand(3), Rat(17 * d(4), 255)>>, st)
       ELSE IF Len(HEX) = 6 THEN Ok(<<pair(1), pair(3), pair(5), N(1)>>, st)
       ELSE Ok(<<pair(1), pair(3), pair(5), Rat(16 * d(7) + d(8), 255)>>, st)

\* modelConverterToColorConverter(name, converter).parse: tokenize, getAST and
\* parseAST.  The tokens are numbers (the token NaN is not a number literal);
\* components of the models used here have the indices 0, 1, 2.
ParseFunction(name, tokens, st) ==
    IF Len(tokens) \notin {3, 4}
    THEN Err("Invalid number of tokens", st)
    ELSE LET st1 == InjectAlpha(st, name)
         IN IF \E i \in DOMAIN tokens : tokens[i] = NaN
            THEN Err("Invalid number value", st1)
            ELSE Ok(<<tokens[1], tokens[2], tokens[3],
                      IF Len(tokens) = 4 THEN tokens[4] ELSE N(1)>>, st1)

\* The same parse followed token by token.  `tokens` is what tokenize() yields
\* after the function name, so tokens[i] of the source is tokens[i] here: a
\* number, a percentage, `none`, another identifier, "," or "/".
NumberToken(v) == [t |-> "number", v |-> v]
PercentToken(v) == [t |-> "percent", v |-> v]
NoneToken == [t |-> "none", v |-> N(0)]
WordToken == [t |-> "word", v |-> N(0)]
Comma == [t |-> ",", v |-> N(0)]
Slash == [t |-> "/", v |-> N(0)]
UndefinedToken == [t |-> "undefined", v |-> N(0)]
TokenAt(tokens, i) == IF i \in DOMAIN tokens THEN tokens[i] ELSE UndefinedToken

\* rgb(<tokens>) and its like
FunctionCall(head, tokens) ==
    [form |-> "call", head |-> head, space |-> "", args |-> <<>>, tokens |-> tokens]

\* getAlpha(index, separator)
getAlpha(tokens, index, separator) ==
    IF index \in DOMAIN tokens
    THEN IF tokens[index].t = separator
         THEN [error |-> "", value |-> TokenAt(tokens, index + 1), hasAlpha |-> TRUE]
         ELSE [error |-> "Invalid alpha separator", value |-> UndefinedToken,
               hasAlpha |-> FALSE]
    ELSE [error |-> "", value |-> NumberToken(N(1)), hasAlpha |-> FALSE]

\* the end of getAST: tokens.length !== expectedLength, the name counted
AstOf(tokens, commaSeparated, c2, c3, alpha, length) ==
    IF alpha.error # ""
    THEN [error |-> alpha.error, c |-> <<>>, commaSeparated |-> commaSeparated]
    ELSE IF Len(tokens) + 1 # (IF alpha.hasAlpha THEN length + 2 ELSE length)
    THEN [error |-> "Invalid number of tokens", c |-> <<>>,
          commaSeparated |-> commaSeparated]
    ELSE [error |-> "", c |-> <<TokenAt(tokens, 1), c2, c3, alpha.value>>,
          commaSeparated |-> commaSeparated]

\* getAST(tokens) of a function other than color() that has no `from`
getAST(tokens) ==
    IF TokenAt(tokens, 2).t = "," /\ TokenAt(tokens, 4).t = ","
    THEN AstOf(tokens, TRUE, TokenAt(tokens, 3), TokenAt(tokens, 5),
               getAlpha(tokens, 6, ","), 6)
    ELSE AstOf(tokens, FALSE, TokenAt(tokens, 2), TokenAt(tokens, 3),
               getAlpha(tokens, 4, "/"), 4)

\* parsePercent(str, min, max)
parsePercent(percent, value) ==
    IF value.kind = "percentage" THEN percent
    ELSE IF Lt(value.min, N(0)) /\ Lt(N(0), value.max)
    THEN Div(Mul(Div(percent, N(100)), Sub(value.max, value.min)), N(2))
    ELSE Add(Mul(Div(percent, N(100)), Sub(value.max, value.min)), value.min)

Evaluated1(v) == [error |-> "", value |-> v]
NotEvaluated(error) == [error |-> error, value |-> NaN]

\* evaluateComponent(token, value, {}, commaSeparated): `legacy` is
\* commaSeparated && supportsLegacy === true
evaluateComponent(token, value, legacy) ==
    CASE token.t = "none" -> Evaluated1(N(0))
      [] token.t = "number" ->
            IF value.kind = "percentage" /\ legacy
            THEN NotEvaluated("The legacy color syntax does not allow numbers for <percentage> components.")
            ELSE IF value.kind \in {"angle", "percentage", "range"}
            THEN Evaluated1(token.v)
            ELSE NotEvaluated("Unable to parse component token")
      [] token.t = "percent" ->
            IF value.kind = "angle" /\ legacy
            THEN NotEvaluated("The legacy color syntax does not allow percentages for <angle> components.")
            ELSE IF value.kind \in {"angle", "percentage", "range"}
            THEN Evaluated1(parsePercent(token.v, value))
            ELSE NotEvaluated("Unable to parse component token")
      [] OTHER -> NotEvaluated("Invalid value")

\* Object.entries(components).sort((a, b) => a[1].index - b[1].index)
InsertByIndex(sorted, e) ==
    LET before == Cardinality({j \in DOMAIN sorted : sorted[j].v.index <= e.v.index})
    IN SubSeq(sorted, 1, before) \o <<e>> \o SubSeq(sorted, before + 1, Len(sorted))
RECURSIVE SortByIndex(_)
SortByIndex(entries) ==
    IF entries = <<>> THEN <<>>
    ELSE InsertByIndex(SortByIndex(SubSeq(entries, 1, Len(entries) - 1)),
                       entries[Len(entries)])

\* percentFlags.push(token.trim()[token.length - 1] === "%") for a component
\* that is not alpha, not an angle and not a percentage
Flagged(meta) == meta.index # 3 /\ meta.value.kind \notin {"angle", "percentage"}
PushFlag(flags, meta, token) ==
    IF Flagged(meta) THEN Append(flags, token.t = "percent") ELSE flags

\* result[meta.index] = value, of which result.slice(0, 4) is kept
SetResult(result, index, evaluated) ==
    IF index \in 0..3 THEN [result EXCEPT ![index + 1] = evaluated.value] ELSE result

\* parseAST without the throw after its loop
NoMixedFlags(commaSeparated, flags) == FALSE

\* the throw after the loop of parseAST
MixedFlags(commaSeparated, flags) ==
    /\ commaSeparated
    /\ Len(flags) > 1
    /\ \E i, j \in DOMAIN flags : flags[i] /\ ~flags[j]

\* the loop of parseAST over the sorted components
RECURSIVE ParseComponents(_, _, _, _, _, _, _)
StoreComponent(sorted, c, i, commaSeparated, supportsLegacy, result, flags, evaluated) ==
    IF evaluated.error # "" THEN evaluated
    ELSE ParseComponents(sorted, c, i + 1, commaSeparated, supportsLegacy,
                         SetResult(result, sorted[i].v.index, evaluated), flags)
ParseComponents(sorted, c, i, commaSeparated, supportsLegacy, result, flags) ==
    IF i > Len(sorted)
    THEN IF MixedFlags(commaSeparated, flags)
         THEN NotEvaluated("<number> components must all be numbers or all percentages.")
         ELSE Evaluated1(result)
    ELSE IF commaSeparated /\ TokenAt(c, i).t = "none"
    THEN NotEvaluated("cannot use none in comma-separated syntax.")
    ELSE IF TokenAt(c, i).t = "undefined"
    THEN IF Flagged(sorted[i].v)
         THEN NotEvaluated("TypeError: Cannot read properties of undefined (reading 'slice')")
         ELSE ParseComponents(sorted, c, i + 1, commaSeparated, supportsLegacy, result, flags)
    ELSE StoreComponent(sorted, c, i, commaSeparated, supportsLegacy, result,
                        PushFlag(flags, sorted[i].v, c[i]),
                        evaluateComponent(c[i], sorted[i].v.value,
                                          commaSeparated /\ supportsLegacy))

\* a hole of the array `result`
Hole == <<0, -2>>

\* [...components.slice(0, 3), components[3] ?? 1]
Parsed(components, st) ==
    IF components.error # "" THEN Err(components.error, st)
    ELSE IF \E i \in 1..3 : components.value[i] = Hole
    THEN [Ok(components.value, st) EXCEPT !.exact = FALSE]
    ELSE Ok([components.value EXCEPT ![4] = IF @ = Hole THEN N(1) ELSE @], st)

\* parseAST(ast)
parseAST(name, ast, st) ==
    IF ast.commaSeparated /\ ~Get(st.models, name).supportsLegacy
    THEN Err("does not support comma-separated syntax.", st)
    ELSE Parsed(ParseComponents(SortByIndex(OwnEntries(Get(st.models, name).components)),
                                ast.c, 1, ast.commaSeparated,
                                Get(st.models, name).supportsLegacy,
                                <<Hole, Hole, Hole, Hole>>, <<>>), st)

\* modelConverterToColorConverter(name, converter).parse of the tokens
ParseTokens(name, tokens, st) ==
    IF getAST(tokens).error # "" THEN Err(getAST(tokens).error, st)
    ELSE parseAST(name, getAST(tokens), InjectAlpha(st, name))

-----------------------------------------------------------------------------
(* utils.ts parseCalc: the parser and the evaluator of the expression inside *)
(* calc().  The expression is given as the tokens tokenize() yields: numbers *)
(* and operators (identifiers and function calls are not followed).          *)

Num(n) == [type |-> "number", num |-> n, op |-> ""]
Op(o) == [type |-> "operator", num |-> N(0), op |-> o]
NoToken == [type |-> "end", num |-> N(0), op |-> ""]

\* cur(): the token at pos
curToken(tokens, pos) == IF pos <= Len(tokens) THEN tokens[pos] ELSE NoToken

\* what a parse function yields: the node and the position after it, or an error
Node(ast, pos) == [ast |-> ast, pos |-> pos, error |-> ""]
Fail(error, pos) == [ast |-> [type |-> "none"], pos |-> pos, error |-> error]

Binary(op, left, right) == [type |-> "binary", op |-> op, left |-> left, right |-> right]

\* the parse goes on with `rest` unless `r` is an error
Bind(r, rest(_)) == IF r.error # "" THEN r ELSE rest(r)

RECURSIVE parsePrimary(_, _), parseUnary(_, _), parsePower(_, _), parseMul(_, _),
          parseAdd(_, _), PowerLoop(_, _, _), MulLoop(_, _, _), AddLoop(_, _, _)

\* expect(")") after the expression e
Closed(tokens, e) ==
    IF curToken(tokens, e.pos).op = ")" THEN Node(e.ast, e.pos + 1)
    ELSE Fail("Expected )", e.pos)

parsePrimary(tokens, pos) ==
    CASE curToken(tokens, pos).type = "end" -> Fail("Unexpected end of input", pos)
      [] curToken(tokens, pos).type = "number" ->
            Node([type |-> "number", value |-> tokens[pos].num], pos + 1)
      [] curToken(tokens, pos).type = "operator" /\ tokens[pos].op = "(" ->
            Bind(parseAdd(tokens, pos + 1), LAMBDA e : Closed(tokens, e))
      [] OTHER -> Fail("Unexpected token", pos)

parseUnary(tokens, pos) ==
    IF curToken(tokens, pos).op \in {"+", "-"}
    THEN Bind(parseUnary(tokens, pos + 1), LAMBDA arg :
            Node([type |-> "unary", op |-> tokens[pos].op, arg |-> arg.ast], arg.pos))
    ELSE parsePrimary(tokens, pos)

\* while (cur() && cur().value === "**") left = { left, right: parseUnary() }
PowerLoop(tokens, left, pos) ==
    IF curToken(tokens, pos).op = "**"
    THEN Bind(parseUnary(tokens, pos + 1), LAMBDA right :
            PowerLoop(tokens, Binary("**", left, right.ast), right.pos))
    ELSE Node(left, pos)

parsePower(tokens, pos) ==
    Bind(parseUnary(tokens, pos), LAMBDA left : PowerLoop(tokens, left.ast, left.pos))

MulLoop(tokens, left, pos) ==
    IF curToken(tokens, pos).op \in {"*", "/", "%"}
    THEN Bind(parsePower(tokens, pos + 1), LAMBDA right :
            MulLoop(tokens, Binary(tokens[pos].op, left, right.ast), right.pos))
    ELSE Node(left, pos)

parseMul(tokens, pos) ==
    Bind(parsePower(tokens, pos), LAMBDA left : MulLoop(tokens, left.ast, left.pos))

AddLoop(tokens, left, pos) ==
    IF curToken(tokens, pos).op \in {"+", "-"}
    THEN Bind(parseMul(tokens, pos + 1), LAMBDA right :
            AddLoop(tokens, Binary(tokens[pos].op, left, right.ast), right.pos))
    ELSE Node(left, pos)

parseAdd(tokens, pos) ==
    Bind(parseMul(tokens, pos), LAMBDA left : AddLoop(tokens, left.ast, left.pos))

\* parse(tokens)
parseExpression(tokens) ==
    Bind(parseAdd(tokens, 1), LAMBDA ast :
        IF ast.pos <= Len(tokens) THEN Fail("Extra tokens after expression", ast.pos)
        ELSE ast)

\* L op R of evaluate(); `exact` is false for a power the model does not compute
BinaryValue(op, L, R) ==
    CASE op = "+" -> [value |-> Add(L, R), exact |-> TRUE]
      [] op = "-" -> [value |-> Sub(L, R), exact |-> TRUE]
      [] op = "*" -> [value |-> Mul(L, R), exact |-> TRUE]
      [] op = "/" -> [value |-> Div(L, R), exact |-> TRUE]
      [] op = "%" -> [value |-> JsRem(L, R), exact |-> TRUE]
      [] op = "**" -> IF R[2] = 1 /\ R[1] >= 0 /\ IsFinite(L)
                      THEN [value |-> IntPow(L, R[1]), exact |-> TRUE]
                      ELSE [value |-> NaN, exact |-> FALSE]

\* case "binary" and case "unary" of evaluate(), the operands evaluated
EvaluateBinary(op, L, R) ==
    [BinaryValue(op, L.value, R.value) EXCEPT !.exact = @ /\ L.exact /\ R.exact]
EvaluateUnary(op, v) == IF op = "-" THEN [v EXCEPT !.value = Sub(N(0), @)] ELSE v

\* evaluate(ast, env)
RECURSIVE evaluate(_)
evaluate(ast) ==
    CASE ast.type = "number" -> [value |-> ast.value, exact |-> TRUE]
      [] ast.type = "binary" ->
            EvaluateBinary(ast.op, evaluate(ast.left), evaluate(ast.right))
      [] ast.type = "unary" -> EvaluateUnary(ast.op, evaluate(ast.arg))

\* return result as number
Evaluated(result, st) == [Ok(result.value, st) EXCEPT !.exact = result.exact]

\* try { ... } catch (err) { throw new Error(`Evaluation error: ${err}`) }
Calculated(ast, st) ==
    IF ast.error # "" THEN Err("Evaluation error: " \o ast.error, st)
    ELSE Evaluated(evaluate(ast.ast), st)

\* parseCalc(token, min, max) of a token calc(...) whose inner text yields `tokens`
parseCalc(tokens, st) == Calculated(parseExpression(tokens), st)

\* the parse of a colour function, its components calculated
ParseCalculated(name, parsed, st) ==
    IF \E i \in DOMAIN parsed : parsed[i].status = "throw"
    THEN Err("Evaluation error", InjectAlpha(st, name))
    ELSE [ParseFunction(name, [i \in DOMAIN parsed |-> parsed[i].value], st)
             EXCEPT !.exact = \A i \in DOMAIN parsed : parsed[i].exact]

\* the parse of a colour function whose components are all written as calc()
ParseCalcFunction(name, calcs, st) ==
    IF Len(calcs) \notin {3, 4} THEN ParseFunction(name, <<>>, st)
    ELSE ParseCalculated(name, [i \in DOMAIN calcs |-> parseCalc(calcs[i], st)], st)

\* colorTypes["system-color"].parse
ParseSystemColor(str, st) ==
    LET pair == Get(Get(config, "systemColors").o, SystemColorKey(str))
        i == IF Get(config, "theme") = Str("light") THEN 1 ELSE 2
    IN IF pair.t = "array" /\ i <= Len(pair.a)
       THEN Ok([j \in 1..Len(pair.a[i]) |-> N(pair.a[i][j])] \o <<N(1)>>, st)
       ELSE Err("TypeError: rgbArr is not iterable", st)

RECURSIVE ParseColorMix(_, _), ParseLightDark(_, _)

\* colorTypes[type].parse(str), for the types whose strings the model uses
parse(type, c, str, st) ==
    CASE c.kind = "hex-color" -> ParseHex(str.args, st)
      [] c.kind = "function" ->
            IF "calc" \in DOMAIN str THEN ParseCalcFunction(type, str.calc, st)
            ELSE IF "tokens" \in DOMAIN str THEN ParseTokens(type, str.tokens, st)
            ELSE ParseFunction(type, str.args, st)
      [] c.kind = "named-color" ->
            LET rgb == Get(namedColors, str.head)
            IN Ok(<<N(rgb[1]), N(rgb[2]), N(rgb[3]), N(1)>>, st)
      [] c.kind = "transparent" -> Ok(<<N(0), N(0), N(0), N(0)>>, st)
      [] c.kind = "currentColor" -> Ok(<<N(0), N(0), N(0), N(1)>>, st)
      [] c.kind = "user" ->
            IF c.result = <<>> THEN Err("parse failed", st) ELSE Ok(c.result, st)
      [] c.kind = "system-color" -> ParseSystemColor(str.head, st)
      [] c.kind = "color-mix" -> ParseColorMix(str, st)
      [] c.kind = "light-dark" -> ParseLightDark(str, st)

\* math.ts HSL_to_RGB(hsl), in exact arithmetic on the numerators and
\* denominators of h, s and l: k = (n + h / 30) % 12 over 30 * h[2], the
\* clamped Math.max(-1, Math.min(k - 3, 9 - k, 1)) over the same denominator,
\* a = s * Math.min(l, 1 - l) over 10000 * s[2] * l[2], and f(n) * 255
Least(a, b) == IF a < b THEN a ELSE b
Greatest(a, b) == IF a > b THEN a ELSE b
JsMod(a, m) == IF a < 0 THEN -((-a) % m) ELSE a % m
HslK(h, n) == JsMod(n * 30 * h[2] + h[1], 360 * h[2])
HslT(k, d) == Greatest(-d, Least(Least(k - 3 * d, 9 * d - k), d))
HslA(s, l) == s[1] * Least(l[1], 100 * l[2] - l[1])
HslF(h, s, l, n) ==
    Rat(255 * (l[1] * 100 * s[2] * 30 * h[2] - HslA(s, l) * HslT(HslK(h, n), 30 * h[2])),
        10000 * s[2] * l[2] * 30 * h[2])
HSL_to_RGB(hsl) ==
    IF \E i \in 1..3 : hsl[i][2] = 0 THEN <<NaN, NaN, NaN>>
    ELSE [i \in 1..3 |-> HslF(hsl[1], hsl[2], hsl[3], <<0, 8, 4>>[i])]

\* the conversion functions the model computes
Computed == {"scale", "HSL_to_RGB"}

\* a conversion function applied to an array: a scaling of every element, or
\* HSL_to_RGB
Apply(fn, v) ==
    IF fn.fn = "HSL_to_RGB" THEN HSL_to_RGB(v) ELSE [i \in DOMAIN v |-> Mul(fn.k, v[i])]

\* The loop of Color.from over `entries`, the color types in enumeration order.
RECURSIVE FromTypes(_, _, _)
FromTypes(entries, cleaned, st) ==
    IF entries = <<>>
    THEN Err("Unsupported or invalid color format", st)
    ELSE LET type == Head(entries).k
             c == Head(entries).v
         IN IF isValid(type, c, cleaned, st.models)
            THEN Then(parse(type, c, cleaned, st), LAMBDA parsed :
                    [IF JsIn(type, parsed.st.models)
                     THEN Color(type, parsed.value, parsed.st)
                     ELSE Color(c.bridge, Apply(c.toBridge, parsed.value), parsed.st)
                        EXCEPT !.exact = parsed.exact])
            ELSE FromTypes(Tail(entries), cleaned, st)

\* Color.from(color): for (const type in colorTypes)
from(color, st) == FromTypes(OwnEntries(colorTypes), clean(color), st)

-----------------------------------------------------------------------------
(* Color.in: the conversion graph, the breadth-first search and the walk.    *)

\* a conversion function that is not there
Absent == [fn |-> "absent", k |-> N(0)]

\* graph[name] || []
Neighbors(graph, name) == IF HasOwn(graph, name) THEN Get(graph, name) ELSE <<>>

\* buildGraph(): for (const [modelName, conv] of Object.entries(colorModels))
RECURSIVE buildGraph(_, _)
buildGraph(entries, graph) ==
    IF entries = <<>> THEN graph
    ELSE LET modelName == Head(entries).k
             bridge == Head(entries).v.bridge
             g1 == Put(graph, modelName, Append(Neighbors(graph, modelName), bridge))
             g2 == Put(g1, bridge, Append(Neighbors(g1, bridge), modelName))
         IN buildGraph(Tail(entries), g2)

\* graph[bridge] of a name inherited from Object.prototype is a function, not a
\* list: pushing to it (or spreading it) is a TypeError.
GraphTypeError(models) == \E i \in DOMAIN models : models[i].v.bridge \in ObjectPrototype

\* for (const neighbor of graph[node] || []) if (!(neighbor in parent)) ...
RECURSIVE Visit(_, _, _, _)
Visit(neighbors, node, parent, queue) ==
    IF neighbors = <<>> THEN [parent |-> parent, queue |-> queue]
    ELSE LET neighbor == Head(neighbors)
         IN IF JsIn(neighbor, parent)
            THEN Visit(Tail(neighbors), node, parent, queue)
            ELSE Visit(Tail(neighbors), node, Put(parent, neighbor, node),
                       Append(queue, neighbor))

\* for (let cur = end; cur; cur = parent[cur]) path.push(cur); path.reverse()
\* (the parent of the start is null, written "")
RECURSIVE PathTo(_, _)
PathTo(parent, cur) ==
    IF cur = "" THEN <<>> ELSE Append(PathTo(parent, Get(parent, cur)), cur)

\* the loop of findPath over the queue; <<>> when the queue runs out
RECURSIVE Search(_, _, _, _, _)
Search(graph, end, queue, i, parent) ==
    IF i > Len(queue) THEN <<>>
    ELSE LET node == queue[i]
             r == Visit(Neighbors(graph, node), node, parent, queue)
         IN IF node = end THEN PathTo(parent, end)
            ELSE Search(graph, end, r.queue, i + 1, r.parent)

findPath(graph, start, end) ==
    Search(graph, end, <<start>>, 1, <<[k |-> start, v |-> ""]>>)

\* `${start}-${end}`
CacheKey(start, end) == start \o "-" \o end

\* the loop over the path: one conversion per edge
RECURSIVE Walk(_, _, _)
Walk(path, value, st) ==
    IF Len(path) < 2 THEN Ok(value, st)
    ELSE LET a == path[1]
             b == path[2]
             conv == Get(st.models, a)
             toConv == Get(st.models, b)
             step(fn) == LET r == Walk(Tail(path), Apply(fn, value), st)
                         IN [r EXCEPT !.exact = @ /\ fn.fn \in Computed]
         IN IF ~HasOwn(st.models, a)
            THEN Err("TypeError: cannot read properties of undefined", st)
            ELSE IF conv.toBridge # Absent /\ conv.bridge = b
            THEN step(conv.toBridge)
            ELSE IF HasOwn(st.models, b) /\ toConv.fromBridge # Absent /\ toConv.bridge = a
            THEN step(toConv.fromBridge)
            ELSE Err("No conversion found", st)

\* A Map read and written with has, get and set only: a set of [k, v] entries
MapHas(map, key) == \E e \in map : e.k = key
MapGet(map, key) == (CHOOSE e \in map : e.k = key).v
MapSet(map, key, value) == {e \in map : e.k # key} \cup {[k |-> key, v |-> value]}

\* this.in(model)
in(this, model, st) ==
    LET currentModel == this.model
        targetModel == TrimLower(model)
        alpha == this.coords[4]
        hasGraph == HasOwn(st.cache, "graph")
        graph == IF hasGraph THEN Get(st.cache, "graph")
                 ELSE buildGraph(OwnEntries(st.models), <<>>)
        c1 == IF hasGraph THEN st.cache ELSE Put(st.cache, "graph", graph)
        pathsMap == IF HasOwn(c1, "paths") THEN Get(c1, "paths") ELSE {}
        c2 == Put(c1, "paths", pathsMap)
        cacheKey == CacheKey(currentModel, targetModel)
        path == IF MapHas(pathsMap, cacheKey) THEN MapGet(pathsMap, cacheKey)
                ELSE findPath(graph, currentModel, targetModel)
        c3 == Put(c2, "paths", MapSet(pathsMap, cacheKey, path))
        walked == Walk(path, SubSeq(this.coords, 1, 3), St(st.models, c3))
        made == Color(targetModel, Append(walked.value, alpha), walked.st)
    IN IF targetModel = currentModel
       THEN Color(targetModel, this.coords, st)
       ELSE IF ~hasGraph /\ GraphTypeError(st.models)
       THEN Err("TypeError: graph[bridge] is not a list", st)
       ELSE IF path = <<>>
       THEN Err("No path found", St(st.models, c2))
       ELSE IF walked.status = "throw" THEN walked
       ELSE [made EXCEPT !.exact = walked.exact]

-----------------------------------------------------------------------------
(* utils.ts fit and Color.toArray / toObject.                                *)

\* The `precision` option: null, undefined (left out) or a number of decimals.
NullPrecision == [kind |-> "null", p |-> 0]
NoPrecision == [kind |-> "undefined", p |-> 0]
Decimals(p) == [kind |-> "number", p |-> p]

\* What the code reads off a component definition that is not there:
\* value undefined (bounds [0, 100]) and precision ?? 3.
NoDef == [index |-> -1, value |-> [kind |-> "undefined", min |-> N(0), max |-> N(100)],
          precision |-> 3]

\* componentProps[i], filled by `componentProps[props.index] = props` over
\* Object.values(components)
DefAt(components, i) ==
    LET es == OwnEntries(components)
        at == {j \in DOMAIN es : es[j].v.index = i}
    IN IF at = {} THEN NoDef
       ELSE es[CHOOSE j \in at : \A h \in at : h <= j].v

\* Object.values(defs)[i]
DefAtPosition(defs, i) ==
    LET es == OwnEntries(defs)
    IN IF i + 1 \in DOMAIN es THEN es[i + 1].v ELSE NoDef

RECURSIVE Pow10(_)
Pow10(p) == IF p = 0 THEN 1 ELSE 10 * Pow10(p - 1)

\* Number(v.toFixed(p)) of a finite v: the nearest multiple of 10^-p, the
\* larger in magnitude of two nearest
Round(v, p) ==
    LET a == Abs(v)
        n == Floor(Add(Mul(a, N(Pow10(p))), Rat(1, 2)))
    IN Rat((IF v[1] < 0 THEN -1 ELSE 1) * n, Pow10(p))

\* the "clip" method on one coordinate
Clip(v, prop) ==
    IF prop.value.kind = "angle" THEN Wrap360(v)
    ELSE MathMin(prop.value.max, MathMax(prop.value.min, v))

\* fitMethods[method](coords, model): "halve" is a method a caller registered;
\* the two of math.ts have no rational value
FitWith(fn, coords) ==
    IF fn = "halve" THEN [i \in DOMAIN coords |-> Div(coords[i], N(2))] ELSE coords

fit(coords, model, method, precision, st) ==
    LET components == Get(st.models, model).components
        prop(i) == DefAt(components, i - 1)
        clipped == IF method = "none" THEN coords
                   ELSE IF method = "clip" THEN [i \in 1..3 |-> Clip(coords[i], prop(i))]
                   ELSE FitWith(Get(fitMethods, method), coords)
        p(i) == IF precision.kind = "number" THEN precision.p ELSE prop(i).precision
        rounded == [i \in 1..3 |->
                      IF precision.kind = "null" THEN clipped[i]
                      ELSE Round(clipped[i], p(i))]
    IN IF method = "clip" /\ \E i \in 1..3 : prop(i) = NoDef
       THEN Err("Missing component properties", st)
       ELSE IF method \notin {"none", "clip"} /\ ~HasOwn(fitMethods, method)
       THEN Err("Invalid gamut clipping method", st)
       ELSE [Ok(rounded, st) EXCEPT
                !.exact = method \in {"none", "clip"} \/ Get(fitMethods, method) = "halve"]

\* const { components } = colorModels[model]; if (!components) throw ...
ComponentsError(model, st) ==
    IF HasOwn(st.models, model) THEN ""
    ELSE IF model \in ObjectPrototype THEN "Model does not have defined components."
    ELSE "TypeError: cannot destructure property components of undefined"

\* NaN, Infinity and -Infinity replaced by 0, max and min of the component
Normalize(c, def) ==
    IF c = NaN THEN N(0)
    ELSE IF c = Infinity THEN def.value.max
    ELSE IF c = NegInfinity THEN def.value.min
    ELSE c

\* { ...components, alpha: { index: 3, value: [0, 1], precision: 3 } }
WithAlpha(components) == Put(components, "alpha", AlphaDef)

\* this.toArray({ fit, precision }).  src/src/Color.ts writes `alpha` into the
\* registered component map and reads "precision" in options ? precision : null;
\* part_002 works on a copy and hands the precision on as it is.
toArray(this, method, precision, st) ==
    LET model == this.model
        err == ComponentsError(model, st)
        st1 == IF build = "src" THEN InjectAlpha(st, model) ELSE st
        components == WithAlpha(Get(st.models, model).components)
        def(i) == IF build = "src" THEN DefAt(components, i - 1)
                  ELSE DefAtPosition(components, i - 1)
        normalized == [i \in 1..3 |-> Normalize(this.coords[i], def(i))]
        prec == IF build = "src" /\ precision.kind = "undefined" THEN NullPrecision
                ELSE precision
    IN IF err # "" THEN Err(err, st)
       ELSE Then(fit(normalized, model, method, prec, st1), LAMBDA fitted :
                [fitted EXCEPT !.value = Append(@, this.coords[4])])

\* config.defaults.fit: "TypeError" when config.defaults is undefined or null,
\* "undefined" when it has no string `fit`
DefaultFit ==
    LET defaults == Read(config, "defaults", objectPrototype)
        own == IF defaults.t = "inherited" THEN defaults.v ELSE defaults
    IN IF own.t \in {"undefined", "null"} THEN "TypeError"
       ELSE IF own.t = "object" /\ HasOwn(own.o, "fit") /\ Get(own.o, "fit").t = "string"
       THEN Get(own.o, "fit").s
       ELSE "undefined"

\* this.toArray(): fit "none" in src/src/Color.ts, config.defaults.fit in part_002
toArrayDefault(this, st) ==
    IF build = "src" THEN toArray(this, "none", NoPrecision, st)
    ELSE IF DefaultFit = "TypeError"
    THEN Err("TypeError: Cannot read properties of undefined (reading 'fit')", st)
    ELSE toArray(this, DefaultFit, NoPrecision, st)

\* for (const [comp, { index }] of Object.entries(components)) result[comp] = coords[index]
RECURSIVE ObjectOf(_, _, _)
ObjectOf(entries, coords, result) ==
    IF entries = <<>> THEN result
    ELSE ObjectOf(Tail(entries), coords,
                  Put(result, Head(entries).k, coords[Head(entries).v.index + 1]))

\* this.toObject({ fit, precision })
toObject(this, method, precision, st) ==
    Then(toArray(this, method, precision, st), LAMBDA coords :
        LET st1 == IF build = "src" THEN InjectAlpha(coords.st, this.model) ELSE coords.st
            components == WithAlpha(Get(st.models, this.model).components)
            result == Put(ObjectOf(OwnEntries(components), coords.value, <<>>),
                          "alpha", coords.value[4])
        IN [coords EXCEPT !.value = result, !.st = st1])

-----------------------------------------------------------------------------
(* Color.with, Color.withCoords, Color.mix, Color.equals, Color.within.      *)

\* coords[index] = v of a JavaScript array held as a sequence
SetAt(coords, index, v) == [coords EXCEPT ![index + 1] = v]

\* the loop of `with` over the component names: values[comp], when present,
\* replaces coords[index] after NaN and the infinities are replaced
RECURSIVE WithEach(_, _, _, _)
WithEach(names, values, components, coords) ==
    IF names = <<>> THEN coords
    ELSE LET comp == Head(names)
             def == Get(components, comp)
             newValue == Normalize(Get(values, comp), def)
         IN IF JsIn(comp, values)
            THEN WithEach(Tail(names), values, components, SetAt(coords, def.index, newValue))
            ELSE WithEach(Tail(names), values, components, coords)

\* this.with(values), values an object of numbers
with(this, values, st) ==
    Then(toArray(this, "none", NullPrecision, st), LAMBDA coords :
        LET st1 == IF build = "src" THEN InjectAlpha(coords.st, this.model) ELSE coords.st
            components == WithAlpha(Get(st.models, this.model).components)
            next == WithEach(Keys(components), values, components, coords.value)
        IN Color(this.model, next, st1))

\* an element of newCoords that is undefined, or beyond its end
Undefined == <<0, -1>>

\* this.withCoords(newCoords)  (src/src/Color.ts)
withCoords(this, newCoords, st) ==
    Then(toArray(this, "none", NullPrecision, st), LAMBDA coords :
        LET st1 == InjectAlpha(coords.st, this.model)
            components == WithAlpha(Get(st.models, this.model).components)
            incoming(i) == IF i \in DOMAIN newCoords THEN newCoords[i] ELSE Undefined
            adjusted == [i \in 1..4 |->
                            IF incoming(i) = Undefined THEN coords.value[i]
                            ELSE Normalize(incoming(i), DefAt(components, i - 1))]
        IN Color(this.model, <<adjusted[1], adjusted[2], adjusted[3], coords.value[4]>>, st1))

\* math.ts EASINGS (the polynomial ones the model uses)
EASINGS(easing, t) ==
    CASE easing = "linear" -> t
      [] easing = "ease-in" -> Mul(t, t)
      [] easing = "ease-out" -> Mul(t, Sub(N(2), t))

\* Math.pow(x, e) for the exponents 1 and 2
Pow(x, e) == IF e = N(2) THEN Mul(x, x) ELSE x

\* deltaHue that keeps the difference in [0, 360)
deltaHueUnsigned(a, b) == Wrap360(Sub(b, a))

\* deltaHue / hueDelta
deltaHue(a, b) ==
    LET d == Wrap360(Sub(b, a)) IN IF Lt(N(180), d) THEN Sub(d, N(360)) ELSE d

\* deltaHueLong / hueDeltaLong
deltaHueLong(a, b) ==
    LET short == deltaHue(a, b)
    IN IF Le(N(0), short) THEN Sub(short, N(360)) ELSE Add(short, N(360))

\* interpolate / interpolateHue
interpolate(a, b, t, method) ==
    Wrap360(
        CASE method = "shorter" -> Add(a, Mul(t, deltaHue(a, b)))
          [] method = "longer" -> Add(a, Mul(t, deltaHueLong(a, b)))
          [] method = "increasing" ->
                Add(Mul(a, Sub(N(1), t)), Mul(IF Lt(b, a) THEN Add(b, N(360)) ELSE b, t))
          [] method = "decreasing" ->
                Add(Mul(a, Sub(N(1), t)), Mul(IF Lt(a, b) THEN Sub(b, N(360)) ELSE b, t)))

\* Object.entries(components).find(([k]) => k === "h")?.[1].index, -1 for undefined
HueIndex(components) == IF HasOwn(components, "h") THEN Get(components, "h").index ELSE -1

\* the clamped amount: 1 - max(0, min(1 - amount, 1)) in src/src/Color.ts,
\* max(0, min(1, amount)) in part_002
MixT(amount) ==
    IF build = "src"
    THEN Sub(N(1), MathMax(N(0), MathMin(Sub(N(1), amount), N(1))))
    ELSE MathMax(N(0), MathMin(N(1), amount))

\* the branch of mix for a translucent colour, with premultiplied alpha; the
\* weight of `start` is tt in src/src/Color.ts and 1 - tt in part_002
Premixed(thisCoords, otherCoords, thisAlpha, otherAlpha, hueIndex, tt, hue) ==
    LET wA == IF build = "src" THEN tt ELSE Sub(N(1), tt)
        wB == Sub(N(1), wA)
        premixed == [i \in 1..3 |->
            IF i - 1 = hueIndex THEN interpolate(thisCoords[i], otherCoords[i], tt, hue)
            ELSE Add(Mul(Mul(thisCoords[i], thisAlpha), wA),
                     Mul(Mul(otherCoords[i], otherAlpha), wB))]
        mixedAlpha == Add(Mul(thisAlpha, wA), Mul(otherAlpha, wB))
        mixed == [i \in 1..3 |->
            IF i - 1 = hueIndex THEN premixed[i]
            ELSE IF Lt(N(0), mixedAlpha) THEN Div(premixed[i], mixedAlpha) ELSE N(0)]
    IN Append(mixed, mixedAlpha)

\* the branch of mix for two opaque colours
Opaque(thisCoords, otherCoords, components, tt, hue) ==
    [i \in 1..3 |->
        LET meta == DefAt(components, i - 1)
        IN IF meta = NoDef THEN thisCoords[i]
           ELSE IF meta.value.kind = "angle"
           THEN interpolate(thisCoords[i], otherCoords[i], tt, hue)
           ELSE Add(thisCoords[i], Mul(Sub(otherCoords[i], thisCoords[i]), tt))]
    \o <<N(1)>>

\* this.mix(otherColor, { hue, amount, easing, gamma })
mix(this, otherColor, amount, hue, easing, gamma, st) ==
    Then(toArray(this, "none", NullPrecision, st), LAMBDA coords :
    Then(in(otherColor, this.model,
            IF build = "src" THEN InjectAlpha(coords.st, this.model) ELSE coords.st),
         LAMBDA converted :
    Then(toArray(converted.value, "none", NullPrecision, converted.st), LAMBDA otherArray :
        LET model == this.model
            components == WithAlpha(Get(st.models, model).components)
            t == MixT(amount)
            tt == Pow(EASINGS(easing, t), Div(N(1), gamma))
            thisCoords == SubSeq(coords.value, 1, 3)
            otherCoords == SubSeq(otherArray.value, 1, 3)
            thisAlpha == coords.value[4]
            otherAlpha == otherColor.coords[4]
            first == IF build = "src" THEN amount = N(0) ELSE t = N(0)
            last == IF build = "src" THEN amount = N(1) ELSE t = N(1)
            mixed == IF first THEN Append(thisCoords, thisAlpha)
                     ELSE IF last THEN Append(otherCoords, otherAlpha)
                     ELSE IF Lt(thisAlpha, N(1)) \/ Lt(otherAlpha, N(1))
                     THEN Premixed(thisCoords, otherCoords, thisAlpha, otherAlpha,
                                   HueIndex(components), tt, hue)
                     ELSE Opaque(thisCoords, otherCoords, components, tt, hue)
        IN [Color(model, mixed, otherArray.st) EXCEPT !.exact = converted.exact])))

-----------------------------------------------------------------------------
(* converters.ts: the parsers of color-mix() and light-dark().               *)

\* parseInt(text, 10) of the text of a percentage
ParseInt(text) == N(IF text.neg THEN -text.whole ELSE text.whole)

\* what /^(\d+)%\s+/ matches: digits only
AllDigits(text) == ~text.neg /\ text.frac = N(0)

\* extractColorAndWeight(colorStr): the weight (Undefined when there is none),
\* then Color.from of the colour.  A text before the colour that is not all
\* digits is taken for the colour, and the colour for extra tokens.
extractColorAndWeight(part, st) ==
    LET w == part.weight
        raw == Div(ParseInt(w.text), N(100))
        weight == CASE w.at = "leading" -> MathMin(N(1), MathMax(N(0), raw))
                    [] w.at = "trailing" -> raw
                    [] OTHER -> Undefined
    IN IF w.at = "leading" /\ ~AllDigits(w.text)
       THEN Err("Unexpected extra tokens after color", st)
       ELSE IF w.at = "trailing" /\ Lt(raw, N(0))
       THEN Err("Percentages less than 0 are not valid.", st)
       ELSE IF w.at = "trailing" /\ Lt(N(1), raw)
       THEN Err("Percentages greater than 100 are not valid.", st)
       ELSE Then(from(part.color, st), LAMBDA made :
                [made EXCEPT !.value = [color |-> made.value, weight |-> weight]])

\* getWeight2Prime(weight1, weight2): the amount and the alpha multiplier
\* (1 when it is left undefined)
getWeight2Prime(weight1, weight2, st) ==
    LET w1 == IF weight1 # Undefined THEN weight1
              ELSE IF weight2 # Undefined THEN Sub(N(1), weight2) ELSE Rat(1, 2)
        w2 == IF weight2 # Undefined THEN weight2
              ELSE IF weight1 # Undefined THEN Sub(N(1), weight1) ELSE Rat(1, 2)
        totalWeight == Add(w1, w2)
    IN IF weight1 # Undefined /\ weight2 # Undefined /\ Le(totalWeight, N(0))
       THEN Err("Sum of percengates cannot be 0%.", st)
       ELSE Ok([amount |-> Div(w2, totalWeight),
                alphaMultiplier |-> IF Lt(N(1), totalWeight) THEN N(1) ELSE totalWeight], st)

\* color.with({ alpha: (a) => a * alphaMultiplier })
ScaleAlpha(color, alphaMultiplier, st) ==
    with(color, <<[k |-> "alpha", v |-> Mul(color.coords[4], alphaMultiplier)]>>, st)

\* color1.with(...).in(model).mix(color2.with(...), { amount, hue }).in("rgb").toArray()
MixInRgb(color1, color2, model, hue, amount, alphaMultiplier, st) ==
    Then(ScaleAlpha(color1, alphaMultiplier, st), LAMBDA a :
    Then(in(a.value, model, a.st), LAMBDA b :
    Then(ScaleAlpha(color2, alphaMultiplier, b.st), LAMBDA c :
    Then(mix(b.value, c.value, amount, hue, "linear", N(1), c.st), LAMBDA d :
    Then(in(d.value, "rgb", d.st), LAMBDA e :
        [toArrayDefault(e.value, e.st) EXCEPT !.exact = b.exact /\ d.exact /\ e.exact])))))

\* colorBases["color-mix"].parse
ParseColorMix(str, st) ==
    LET model == str.in
        hasHue == \E i \in DOMAIN Get(st.models, model).components :
                      Get(st.models, model).components[i].v.value.kind = "angle"
    IN IF str.hue # "" /\ ~HasOwn(st.models, model)
       THEN Err("TypeError: Cannot read properties of undefined (reading 'components')", st)
       ELSE IF str.hue # "" /\ ~hasHue
       THEN Err("Hue interpolation not supported", st)
       ELSE Then(extractColorAndWeight(str.parts[1], st), LAMBDA p1 :
            Then(extractColorAndWeight(str.parts[2], p1.st), LAMBDA p2 :
            Then(getWeight2Prime(p1.value.weight, p2.value.weight, p2.st), LAMBDA w :
                [MixInRgb(p1.value.color, p2.value.color, model,
                          IF str.hue = "" THEN "shorter" ELSE str.hue,
                          w.value.amount, w.value.alphaMultiplier, p2.st)
                    EXCEPT !.exact = @ /\ p1.exact /\ p2.exact])))

\* colorTypes["light-dark"].parse
ParseLightDark(str, st) ==
    IF Len(str.parts) # 2 THEN Err("Invalid light-dark format", st)
    ELSE Then(from(IF Get(config, "theme") = Str("light") THEN str.parts[1]
                   ELSE str.parts[2], st),
              LAMBDA made : [toArrayDefault(made.value, made.st) EXCEPT
                                !.exact = @ /\ made.exact])

\* this.coords.every((value, i) => Math.abs(value - other.coords[i]) <= epsilon)
Every(a, b, epsilon) == \A i \in DOMAIN a : Le(Abs(Sub(a[i], b[i])), epsilon)

\* this.equals(otherColor, epsilon).  src/src/Color.ts compares the raw coords
\* when the models differ, part_002 when they are the same.
equals(this, otherColor, epsilon, st) ==
    IF (IF build = "src" THEN otherColor.model # this.model
        ELSE otherColor.model = this.model)
    THEN Ok(Every(this.coords, otherColor.coords, epsilon), st)
    ELSE Then(in(this, "xyz-d65", st), LAMBDA thisIn :
         Then(toArray(thisIn.value, "none", NullPrecision, thisIn.st), LAMBDA thisXyz :
         Then(in(otherColor, "xyz-d65", thisXyz.st), LAMBDA otherIn :
         Then(toArray(otherIn.value, "none", NullPrecision, otherIn.st), LAMBDA otherXyz :
            [Ok(Every(thisXyz.value, otherXyz.value, epsilon), otherXyz.st)
                EXCEPT !.exact = thisIn.exact /\ otherIn.exact]))))

\* this.within(gamut, method)  (part_002)
within(this, gamut, method, st) ==
    IF ~JsIn(TrimLower(gamut), colorSpaces) THEN Err("Unsupported color gamut", st)
    ELSE Then(in(this, TrimLower(gamut), st), LAMBDA inG :
         Then(toArray(inG.value, method, NullPrecision, inG.st), LAMBDA fitted :
         Then(Color(TrimLower(gamut), fitted.value, fitted.st), LAMBDA made :
         Then(in(made.value, this.model, made.st), LAMBDA back :
            [back EXCEPT !.exact = @ /\ inG.exact /\ fitted.exact]))))

-----------------------------------------------------------------------------
(* Color.to and Color.toString.                                              *)

\* modelConverterToColorConverter(name, converter).format(coords, { fit,
\* precision }) with legacy and units left false: the string it builds
format(name, coords, method, precision, st) ==
    Then(fit(SubSeq(coords, 1, 3), name, method, precision, st), LAMBDA clipped :
        LET a == coords[4]
            alpha == Round(MathMin(MathMax(a, N(0)), N(1)), 3)
            args == IF a # N(1) THEN Append(clipped.value, alpha) ELSE clipped.value
        IN [clipped EXCEPT !.value = IF JsIn(name, colorSpaces)
                                     THEN ColorCall(name, args)
                                     ELSE Call(name, args)])

\* Math.round(x) of a finite x
MathRound(x) == Floor(Add(x, Rat(1, 2)))

\* Math.round(Math.max(0, Math.min(255, v))) of a channel
Channel(v) == MathRound(MathMax(N(0), MathMin(N(255), v)))

\* one digit of n.toString(16).toUpperCase()
UpperHexDigit(n) ==
    CASE n = 0 -> "0" [] n = 1 -> "1" [] n = 2 -> "2" [] n = 3 -> "3" [] n = 4 -> "4"
      [] n = 5 -> "5" [] n = 6 -> "6" [] n = 7 -> "7" [] n = 8 -> "8" [] n = 9 -> "9"
      [] n = 10 -> "A" [] n = 11 -> "B" [] n = 12 -> "C" [] n = 13 -> "D"
      [] n = 14 -> "E" [] n = 15 -> "F"

\* the digits of n.toString(16) for an integer n >= 0
RECURSIVE ToString16(_)
ToString16(n) ==
    IF n < 16 THEN <<UpperHexDigit(n)>>
    ELSE Append(ToString16(n \div 16), UpperHexDigit(n % 16))

\* toHex without padStart
toHexUnpadded(v) == IF v < 0 THEN <<"-">> \o ToString16(-v) ELSE ToString16(v)

\* toHex(v).toUpperCase(): v.toString(16).padStart(2, "0"), a minus sign first
\* when v is negative
toHex(v) ==
    LET text == IF v < 0 THEN <<"-">> \o ToString16(-v) ELSE ToString16(v)
    IN IF Len(text) < 2 THEN <<"0">> \o text ELSE text

\* colorBases["hex-color"].format([r, g, b, a = 1])
FormatHex(coords, st) ==
    LET a == IF Len(coords) < 4 THEN N(1) ELSE coords[4]
        hex == toHex(Channel(coords[1])) \o toHex(Channel(coords[2]))
                  \o toHex(Channel(coords[3]))
    IN Ok(Hex(IF Lt(a, N(1)) THEN hex \o toHex(MathRound(Mul(a, N(255)))) ELSE hex), st)

\* colorBases["named-color"].format(rgb): the first name of
\* Object.entries(namedColors) whose triple equals the rounded, clamped
\* channels; undefined when there is none
FormatNamed(coords, st) ==
    LET table == OwnEntries(namedColors)
        rgb == [i \in 1..3 |-> Channel(coords[i])]
        found == {i \in DOMAIN table : table[i].v = rgb}
    IN IF found = {} THEN Ok(Ident("undefined"), st)
       ELSE Ok(Ident(table[CHOOSE i \in found : \A j \in found : i <= j].k), st)

\* colorTypes[type].format(coords, options); a converter a caller registered
\* formats every colour as the word "formatted"
FormatWith(type, c, coords, method, precision, st) ==
    CASE c.kind = "function" -> format(type, coords, method, precision, st)
      [] c.kind = "hex-color" -> FormatHex(coords, st)
      [] c.kind = "named-color" -> FormatNamed(coords, st)
      [] c.kind = "user" -> Ok(Ident("formatted"), st)

\* this.to(type, { fit, precision })
to(this, type, method, precision, st) ==
    LET cleanedType == ToLowerCase(type)
        converter == Get(colorTypes, cleanedType)
        target == IF JsIn(cleanedType, st.models) THEN cleanedType ELSE converter.bridge
    IN IF ~JsIn(cleanedType, colorTypes)
       THEN Err("Unsupported color type", st)
       ELSE IF ~HasOwn(colorTypes, cleanedType) \/ ~converter.out
       THEN Err("Invalid output type", st)
       ELSE IF cleanedType = this.model
       THEN FormatWith(cleanedType, converter, this.coords, method, precision, st)
       ELSE Then(in(this, target, st), LAMBDA converted :
            Then(toArray(converted.value, "none", NullPrecision, converted.st), LAMBDA coords :
            Then(FormatWith(cleanedType, converter, coords.value, method, precision,
                            coords.st), LAMBDA formatted :
               [formatted EXCEPT !.exact = @ /\ converted.exact])))

\* this.toString({ fit, precision }): this.to(this.model, options) in
\* src/src/Color.ts, colorTypes[this.model].format?.(this.coords, options) in
\* part_002
toString(this, method, precision, st) ==
    IF build = "src" THEN to(this, this.model, method, precision, st)
    ELSE IF ~JsIn(this.model, colorTypes)
    THEN Err("TypeError: cannot destructure property format of undefined", st)
    ELSE IF ~HasOwn(colorTypes, this.model) \/ ~Get(colorTypes, this.model).out
    THEN Ok(Ident("undefined"), st)
    ELSE FormatWith(this.model, Get(colorTypes, this.model), this.coords, method,
                    precision, st)

\* Object.values(components).find((comp) => comp.index === index)
DefFind(components, i) ==
    LET es == OwnEntries(components)
        at == {j \in DOMAIN es : es[j].v.index = i}
    IN IF at = {} THEN NoDef
       ELSE es[CHOOSE j \in at : \A h \in at : j <= h].v

\* the suffix format would add were `legacy` not to force units
SuffixUnitsOnly(def, legacy, units) ==
    IF units /\ def.value.kind = "percentage" THEN "%"
    ELSE IF units /\ def.value.kind = "angle" THEN "deg"
    ELSE ""

\* what format appends to the component v of definition def: `${v}%`,
\* `${v}deg` or nothing
Suffix(def, legacy, units) ==
    IF (units \/ legacy) /\ def.value.kind = "percentage" THEN "%"
    ELSE IF (units \/ legacy) /\ def.value.kind = "angle" /\ units THEN "deg"
    ELSE ""

\* The FormattingOptions { legacy, fit, precision, units }
Options(legacy, units, method, precision) ==
    [legacy |-> legacy, units |-> units, fit |-> method, precision |-> precision]

\* the string format returns: the name before "(", the components with their
\* suffixes, whether commas join them, and the alpha when it is written
Formatted(head, space, args, suffix, commas) ==
    [form |-> "call", head |-> head, space |-> space, args |-> args,
     suffix |-> suffix, commas |-> commas]

\* the three returns of format
FormatCall(name, converter, args, a, suffix, legacy) ==
    IF JsIn(name, colorSpaces) THEN Formatted("color", name, args, suffix, FALSE)
    ELSE IF legacy /\ converter.supportsLegacy
    THEN Formatted(IF a = N(1) \/ converter.alphaVariant = "" THEN name
                   ELSE converter.alphaVariant, "", args, suffix, TRUE)
    ELSE Formatted(name, "", args, suffix, FALSE)

\* clipped.map(...) of format, and the alpha appended when a !== 1
FormatArgs(clipped, a) ==
    IF a # N(1) THEN Append(clipped, Round(MathMin(MathMax(a, N(0)), N(1)), 3))
    ELSE clipped

\* modelConverterToColorConverter(name, converter).format(coords, options)
formatOptions(name, coords, options, st) ==
    Then(fit(SubSeq(coords, 1, 3), name, options.fit, options.precision, st),
         LAMBDA clipped :
            [clipped EXCEPT !.value =
                FormatCall(name, Get(st.models, name), FormatArgs(clipped.value, coords[4]),
                           coords[4],
                           [i \in 1..3 |->
                               Suffix(DefFind(Get(st.models, name).components, i - 1),
                                      options.legacy, options.units)],
                           options.legacy)])

\* this.toString(options) of a Color whose type is a colour function
toStringOptions(this, options, st) ==
    IF ~HasOwn(colorTypes, this.model) \/ Get(colorTypes, this.model).kind # "function"
    THEN toString(this, options.fit, options.precision, st)
    ELSE formatOptions(this.model, this.coords, options, st)

-----------------------------------------------------------------------------
(* The initial state and the inputs of the calls.                            *)

\* no fit method has run
NoFrame ==
    [method |-> "", pc |-> "idle", low |-> 0, high |-> 0, den |-> 1,
     min_inGamut |-> TRUE, boundary |-> <<0, 1>>]

\* no Color held
NoColor == [ref |-> "none", model |-> "", coords |-> <<>>]

Init ==
    /\ colorTypes = colorTypes0
    /\ colorBases = AliasOf(colorBases0)
    /\ colorFunctions = AliasOf(colorFunctions0)
    /\ colorModels = colorModels0
    /\ colorSpaces = AliasOf(colorSpaces0)
    /\ namedColors = namedColors0
    /\ fitMethods = fitMethods0
    /\ cache = <<>>
    /\ build \in {"src", "part_002"}
    /\ self = NoColor
    /\ other = NoColor
    /\ ret = Returned("import", "", <<>>, <<>>)
    /\ config = config0
    /\ plugins = {}
    /\ objectPrototype = <<>>
    /\ results = [plugin \in PluginFunctions |-> <<>>]
    /\ frame = NoFrame

\* converters handed to registerColorType and registerColorBase
TypeConverter(shape, bridge, result) ==
    [shape |-> shape, bridge |-> bridge, toBridge |-> Scale(N(2)), accepts |-> {"hex"},
     result |-> result, out |-> TRUE]

TypeConverters ==
    { TypeConverter("ok", "xyz-d65", <<N(1), N(2), N(3)>>),
      TypeConverter("null", "xyz-d65", <<>>),
      TypeConverter("ok", "nope", <<>>) }

\* converters handed to registerColorFunction
FunctionConverter(shape, bridge) ==
    [shape |-> shape,
     components |-> Components("H", Def(0, Angle, 1), "a", Def(1, Range(N(0), N(10)), 2),
                               "b", Def(2, Percentage, 2)),
     bridge |-> bridge, toBridge |-> Scale(N(2)), fromBridge |-> Scale(Rat(1, 2)),
     supportsLegacy |-> FALSE, alphaVariant |-> "", targetGamut |-> "null"]

FunctionConverters ==
    { FunctionConverter("ok", "xyz-d65"), FunctionConverter("ok", "constructor"),
      FunctionConverter("ok", "foo"), FunctionConverter("noComponents", "xyz-d65") }

\* converters handed to registerColorSpace
SpaceConverter(shape, bridge) ==
    [shape |-> shape, components |-> <<"u", "v", "w">>, bridge |-> bridge,
     toBridge |-> Scale(N(2)), fromBridge |-> Scale(Rat(1, 2)), gamutNull |-> FALSE]

SpaceConverters ==
    { SpaceConverter("ok", "xyz-d65"), SpaceConverter("ok", "nope"),
      SpaceConverter("badMatrix", "xyz-d65") }

\* names handed to the registration entry points
Names == {"foo", "My Fn", "hwb"}

\* names handed to unregister
UnregisterNames == {"foo", "My Fn", "my-fn", "myfn", "hwb", "xyz-d65"}

RECURSIVE SeqsUpTo(_, _)
SeqsUpTo(S, n) ==
    IF n = 0 THEN {<<>>}
    ELSE LET shorter == SeqsUpTo(S, n - 1)
         IN shorter \cup {Append(q, x) : q \in shorter, x \in S}

\* colour strings handed to Color.from
FromInputs ==
    { Hex(<<"f", "0", "0">>), Hex(<<"1", "2">>), Ident("RED"), Ident("nope"),
      ColorCall("xyz", <<N(1), N(2), N(3)>>), ColorCall("xyz", <<N(1), N(2), N(3), N(2)>>),
      ColorCall("xyz", <<N(1), NaN, N(3)>>), Call("foo", <<N(400), N(2), N(3), Rat(1, 2)>>) }

\* arguments of new Color(model, coords)
ConstructModels == {"xyz", "foo", "nope"}
ConstructCoords ==
    { <<N(1), N(2), N(3)>>, <<N(2), N(4), N(6), N(1)>>, <<N(400), N(2), N(3), Rat(1, 2)>>,
      <<N(1), N(2), N(3), N(2)>>, <<N(1), N(2)>> }

\* models handed to in(), types handed to to(), gamuts handed to within()
TargetModels == {"xyz", "XYZ", "xyz-d65", "foo", "nope"}

FitOptions == {"none", "clip"}
Precisions == {NullPrecision, NoPrecision}

\* objects handed to with(), arrays handed to withCoords()
WithValues ==
    { <<[k |-> "alpha", v |-> N(2)]>>, <<[k |-> "x", v |-> NaN]>>,
      <<[k |-> "h", v |-> Infinity], [k |-> "alpha", v |-> Rat(1, 4)]>> }
NewCoords == { <<N(5), Undefined, NaN>>, <<N(5), N(6), N(7), N(0)>> }

\* options handed to mix()
Amounts == {N(-1), N(0), Rat(1, 4), Rat(1, 2), N(1), N(2)}
Hues == {"shorter", "longer", "increasing", "decreasing"}
Easings == {"linear", "ease-in", "ease-out"}
Gammas == {N(1), Rat(1, 2)}

\* 1e-5, the default epsilon of equals
Epsilon == Rat(1, 100000)

-----------------------------------------------------------------------------
(* The calls a program makes.                                                *)

RegisterColorType(names) ==
    /\ UserCount < MaxUser
    /\ \E name \in names, c \in TypeConverters : registerColorType(name, c)

RegisterColorBase(names) ==
    /\ UserCount < MaxUser
    /\ \E name \in names, c \in TypeConverters : registerColorBase(name, c)

RegisterColorFunction(names, converters) ==
    /\ UserCount < MaxUser
    /\ \E name \in names, c \in converters : registerColorFunction(name, c)

RegisterColorSpace(names) ==
    /\ UserCount < MaxUser
    /\ \E name \in names, c \in SpaceConverters : registerColorSpace(name, c)

\* the triples of registerNamedColor: a new one, the triple of red, a pair
Triples == {<<1, 2, 3>>, <<255, 0, 0>>, <<1, 2>>}

RegisterNamedColor(names, triples) ==
    \E name \in names, rgb \in triples : registerNamedColor(name, rgb)

\* the names and the methods handed to registerFitMethod
FitNames == {"clip", "css-gamut-map"}
FitFunctions == {"halve", "not a function"}

RegisterFitMethod(names, methods) ==
    \E name \in names, method \in methods : registerFitMethod(name, method)

Unregister(names) == \E types \in SeqsUpTo(names, MaxUnregArgs) : unregister(types)

Configure(optionsPool) == \E options \in optionsPool : configure(options)

\* use(...pluginFns), while every function handed over has invocations left to
\* follow
Use(pluginLists) ==
    \E pluginFns \in pluginLists :
        /\ \A i \in DOMAIN pluginFns :
              IsFunction(pluginFns[i]) =>
                  Len(results[pluginFns[i]])
                      + Cardinality({j \in DOMAIN pluginFns : pluginFns[j] = pluginFns[i]})
                  <= MaxResults
        /\ use(pluginFns)

\* What a Color operation leaves behind: its writes to the model table and the
\* cache, and its outcome.  The model follows the calls it can compute exactly.
Commit(op, arg, r) ==
    /\ r.exact
    /\ colorModels' = r.st.models
    /\ cache' = r.st.cache
    /\ ret' = [op |-> op, status |-> r.status, error |-> r.error, name |-> "",
               arg |-> arg, value |-> r.value]
    /\ UNCHANGED <<colorTypes, colorBases, colorFunctions, colorSpaces, namedColors,
                   fitMethods, ambient>>

\* const self = ... / const other = ... : the caller keeps the new Color
Keep(target, r) ==
    IF r.status = "throw" THEN UNCHANGED heap
    ELSE IF target = "self"
    THEN self' = [r.value EXCEPT !.ref = "self"] /\ UNCHANGED other
    ELSE other' = [r.value EXCEPT !.ref = "other"] /\ UNCHANGED self

Now == St(colorModels, cache)

Construct(targets, models, coordsPool) ==
    \E target \in targets, model \in models, coords \in coordsPool :
        LET r == Color(model, coords, Now)
        IN /\ Commit("constructor", [target |-> target, model |-> model, coords |-> coords], r)
           /\ Keep(target, r)

From(targets, colors) ==
    \E target \in targets, color \in colors :
        LET r == from(color, Now)
        IN /\ Commit("from", [target |-> target, color |-> color], r)
           /\ Keep(target, r)

\* new Color("xyz", [1, 2, 3]).in(target), the result not kept
Convert ==
    \E target \in TargetModels :
        LET made == Color("xyz", <<N(1), N(2), N(3)>>, Now)
        IN /\ made.status = "ok"
           /\ Commit("in", target, in(made.value, target, Now))
           /\ UNCHANGED heap

In(models) ==
    /\ self # NoColor
    /\ \E model \in models : Commit("in", model, in(self, model, Now))
    /\ UNCHANGED heap

To(types, methods, precisions) ==
    /\ self # NoColor
    /\ \E type \in types, method \in methods, precision \in precisions :
          Commit("to", [type |-> type, fit |-> method, precision |-> precision],
                 to(self, type, method, precision, Now))
    /\ UNCHANGED heap

ToString(methods, precisions) ==
    /\ self # NoColor
    /\ \E method \in methods, precision \in precisions :
          Commit("toString", [fit |-> method, precision |-> precision],
                 toString(self, method, precision, Now))
    /\ UNCHANGED heap

\* self.toString({ legacy, units, fit, precision })
ToStringOptions(optionsPool) ==
    /\ self # NoColor
    /\ \E options \in optionsPool :
          Commit("toString", options, toStringOptions(self, options, Now))
    /\ UNCHANGED heap

\* fit(coords, model, { method, precision })
Fit(coordsPool, models, methods, precisions) ==
    /\ \E coords \in coordsPool, model \in models, method \in methods,
          precision \in precisions :
          Commit("fit", [coords |-> coords, model |-> model, fit |-> method,
                         precision |-> precision],
                 fit(coords, model, method, precision, Now))
    /\ UNCHANGED heap

ToArray(methods, precisions) ==
    /\ self # NoColor
    /\ \E method \in methods, precision \in precisions :
          Commit("toArray", [fit |-> method, precision |-> precision],
                 toArray(self, method, precision, Now))
    /\ UNCHANGED heap

ToObject(methods, precisions) ==
    /\ self # NoColor
    /\ \E method \in methods, precision \in precisions :
          Commit("toObject", [fit |-> method, precision |-> precision],
                 toObject(self, method, precision, Now))
    /\ UNCHANGED heap

\* a with that writes the new coordinates into the Color it is called on
WithInPlace(valuesPool) ==
    /\ self # NoColor
    /\ \E values \in valuesPool :
          LET r == with(self, values, Now)
          IN /\ Commit("with", values, r)
             /\ self' = IF r.status = "ok" THEN [self EXCEPT !.coords = r.value.coords]
                        ELSE self
    /\ UNCHANGED other

With(valuesPool) ==
    /\ self # NoColor
    /\ \E values \in valuesPool : Commit("with", values, with(self, values, Now))
    /\ UNCHANGED heap

WithCoords(coordsPool) ==
    /\ self # NoColor
    /\ build = "src"
    /\ \E newCoords \in coordsPool :
          Commit("withCoords", newCoords, withCoords(self, newCoords, Now))
    /\ UNCHANGED heap

Mix(amounts, hues, easings, gammas) ==
    /\ self # NoColor /\ other # NoColor
    /\ \E amount \in amounts, hue \in hues, easing \in easings, gamma \in gammas :
          Commit("mix", [amount |-> amount, hue |-> hue, easing |-> easing, gamma |-> gamma],
                 mix(self, other, amount, hue, easing, gamma, Now))
    /\ UNCHANGED heap

Equals ==
    /\ self # NoColor /\ other # NoColor
    /\ Commit("equals", Epsilon, equals(self, other, Epsilon, Now))
    /\ UNCHANGED heap

Within(gamuts, methods) ==
    /\ self # NoColor
    /\ build = "part_002"
    /\ \E gamut \in gamuts, method \in methods :
          Commit("within", [gamut |-> gamut, fit |-> method],
                 within(self, gamut, method, Now))
    /\ UNCHANGED heap

Next ==
    \/ RegisterColorType(Names) \/ RegisterColorBase(Names)
    \/ RegisterColorFunction(Names, FunctionConverters) \/ RegisterColorSpace(Names)
    \/ RegisterNamedColor({"My Fn"}, Triples) \/ RegisterFitMethod(FitNames, FitFunctions)
    \/ Unregister(UnregisterNames)
    \/ Construct({"self", "other"}, ConstructModels, ConstructCoords)
    \/ From({"self", "other"}, FromInputs)
    \/ In(TargetModels)
    \/ To(TargetModels, FitOptions, Precisions)
    \/ ToString(FitOptions, Precisions)
    \/ ToArray(FitOptions, Precisions)
    \/ ToObject(FitOptions, Precisions)
    \/ With(WithValues) \/ WithCoords(NewCoords)
    \/ Mix(Amounts, Hues, Easings, Gammas)
    \/ Equals \/ Within(TargetModels, FitOptions) \/ Convert

Spec == Init /\ [][Next]_vars

\* Programs that only register, unregister and convert.  utils.ts is the same
\* in both builds, and Color.in finds and stores its paths alike in both.
InitRegistry == Init /\ build = "src"

NextRegistry ==
    \/ RegisterColorType(Names) \/ RegisterColorBase(Names)
    \/ RegisterColorFunction(Names, FunctionConverters) \/ RegisterColorSpace(Names)
    \/ RegisterNamedColor({"My Fn"}, Triples) \/ RegisterFitMethod(FitNames, FitFunctions)
    \/ Unregister(UnregisterNames)
    \/ Convert

SpecRegistry == InitRegistry /\ [][NextRegistry]_vars

-----------------------------------------------------------------------------
(* Properties of the registry.                                               *)

\* the elements of a sequence
Elements(q) == {q[i] : i \in DOMAIN q}

\* the entry points that register a converter
ConverterOps ==
    {"registerColorType", "registerColorBase", "registerColorFunction",
     "registerColorSpace"}

NoGraphNoPaths == ~HasOwn(cache, "graph") /\ ~HasOwn(cache, "paths")

\* C3, as stated: in every reachable registry state the bridge of every
\* registered model names a registered model other than the model itself.
C3_BridgeNamesAnotherModel ==
    \A i \in DOMAIN colorModels :
        /\ HasOwn(colorModels, colorModels[i].v.bridge)
        /\ colorModels[i].v.bridge # colorModels[i].k

AbsentFromConverterTables(n) ==
    /\ ~HasOwn(colorTypes, n) /\ ~HasOwn(colorBases, n) /\ ~HasOwn(colorFunctions, n)
    /\ ~HasOwn(colorModels, n) /\ ~HasOwn(colorSpaces, n)

\* C5, as stated: when unregister is called directly after a successful
\* registration, by any entry point, and is given the name that registration
\* was given, the name the registration stored is absent from all seven
\* registry tables afterwards.
C5_UnregisterSameArgument ==
    (ret.op = "unregister" /\ ret.value # <<>> /\ ret.value[3] \in Elements(ret.arg))
        => /\ AbsentFromConverterTables(ret.value[2])
           /\ ~HasOwn(namedColors, ret.value[2])
           /\ ~HasOwn(fitMethods, ret.value[2])

-----------------------------------------------------------------------------
(* Properties of Color.from.                                                 *)

\* Programs that register a colour type and parse strings.  "7" is a name
\* that JavaScript enumerates as an array index.
IndexNames == {"7", "foo"}

InitFrom == Init

NextFrom ==
    \/ RegisterColorType(IndexNames)
    \/ From({"self"}, FromInputs)
    \/ Unregister(IndexNames)

SpecFrom == InitFrom /\ [][NextFrom]_vars

\* C1, as stated: Color.from(s) is decided by the first colour type in
\* insertion order of the registry whose isValid accepts clean(s): it returns
\* that type's parse result wrapped in a Color, or raises what that parse
\* raises, so a type registered later never takes precedence over an earlier
\* one that accepts the same string.
C1_FirstInsertedTypeDecides ==
    ret.op = "from" =>
        LET r == FromTypes(colorTypes, clean(ret.arg.color), Now)
        IN /\ ret.status = r.status
           /\ ret.error = r.error
           /\ ret.status = "ok" =>
                 /\ ret.value.model = r.value.model
                 /\ ret.value.coords = r.value.coords

-----------------------------------------------------------------------------
(* Properties of Color values.                                               *)

\* Programs that register the function "foo", make Colors and derive new
\* Colors from them.
ColorCoords ==
    { <<N(1), N(2), N(3)>>, <<N(400), N(2), N(3), Rat(1, 2)>>, <<N(1), N(2), N(3), N(2)>>,
      <<N(1), N(2)>> }
ColorInputs ==
    { Hex(<<"f", "0", "0">>), ColorCall("xyz", <<N(1), N(2), N(3), N(2)>>),
      ColorCall("xyz", <<N(1), NaN, N(3)>>), Call("foo", <<N(400), N(2), N(3), Rat(1, 2)>>) }
ColorTargets == {"XYZ", "foo", "nope"}

RegisterFoo == RegisterColorFunction({"foo"}, {FunctionConverter("ok", "xyz-d65")})

InitValue == Init

NextValue ==
    \/ RegisterFoo
    \/ Construct({"self"}, {"xyz", "foo", "nope"}, ColorCoords)
    \/ Construct({"other"}, {"xyz"}, {<<N(400), N(2), N(3), Rat(1, 2)>>})
    \/ From({"self"}, ColorInputs)
    \/ In(ColorTargets)
    \/ With(WithValues)
    \/ Mix({Rat(1, 4)}, {"shorter"}, {"linear"}, {N(1)})

SpecValue == InitValue /\ [][NextValue]_vars

\* Programs that register the function "foo", make Colors and call every
\* operation of a Color.
InitOps == Init

NextOps ==
    \/ RegisterFoo
    \/ Construct({"self"}, {"xyz", "foo"}, {<<N(1), N(2), N(3)>>, <<N(400), N(2), N(3), Rat(1, 2)>>})
    \/ Construct({"other"}, {"foo"}, {<<N(1), N(2), N(3)>>})
    \/ In({"XYZ", "foo"})
    \/ To({"XYZ", "foo"}, {"clip"}, {NoPrecision})
    \/ ToString({"clip"}, {NoPrecision})
    \/ ToArray({"none"}, {NullPrecision})
    \/ ToObject({"none"}, {NullPrecision})
    \/ With(WithValues)
    \/ WithCoords(NewCoords)
    \/ Mix({Rat(1, 4)}, {"shorter"}, {"linear"}, {N(1)})
    \/ Within({"XYZ", "foo"}, {"clip"})
    \/ Equals

SpecOps == InitOps /\ [][NextOps]_vars

\* Programs that register the function "foo", whose first component is a hue,
\* make two Colors of it and mix them.
MixCoords ==
    { <<N(400), N(2), N(3)>>, <<N(10), N(4), N(6), Rat(1, 2)>>, <<N(0), N(4), N(6), N(1)>>,
      <<N(120), N(8), N(2), N(1)>>, <<N(300), N(8), N(2), N(0)>> }

InitMix == Init

NextMix ==
    \/ RegisterFoo
    \/ Construct({"self", "other"}, {"foo"}, MixCoords)
    \/ Mix(Amounts, Hues, {"linear", "ease-in"}, Gammas)

SpecMix == InitMix /\ [][NextMix]_vars

\* the operations of a Color that C2 names
ReadOps == {"from", "in", "to", "toString", "toArray", "toObject", "with", "mix"}

\* C2, as stated: Color.from, in, to, toString, toArray, toObject, with and mix
\* leave every registry table unchanged, the component map of each registered
\* model included.
C2_OperationsLeaveRegistryUnchanged ==
    [][ret'.op \in ReadOps => UNCHANGED registry]_vars

\* the operations of a Color that C7 names, and those of them that return a Color
ColorOps ==
    {"in", "to", "toString", "toArray", "toObject", "with", "withCoords", "mix", "within"}
DerivingOps == {"in", "with", "withCoords", "mix", "within"}

MakingOps == {"constructor", "from", "in", "with", "mix"}

\* C8, as stated: every Color the constructor, Color.from, in, with or mix
\* produces has exactly four coordinates, the fourth being 1 when the
\* constructor was given three, and the fourth lies in [0, 1].
C8_FourCoordsAlphaInUnitRange ==
    (ret.op \in MakingOps /\ ret.status = "ok") =>
        /\ Len(ret.value.coords) = 4
        /\ (ret.op = "constructor" /\ Len(ret.arg.coords) = 3) => ret.value.coords[4] = N(1)
        /\ Le(N(0), ret.value.coords[4]) /\ Le(ret.value.coords[4], N(1))

\* the coords of a Color converted to xyz-d65
InXyz(color) == in(color, "xyz-d65", Now).value.coords

\* C9, as stated: a.equals(b, eps) compares the coords of a and b
\* component-wise within eps when a and b have the same model, and compares
\* both after conversion to xyz-d65 otherwise.
C9_EqualsComparesInCommonModel ==
    (ret.op = "equals" /\ ret.status = "ok") =>
        ret.value = IF self.model = other.model
                    THEN Every(self.coords, other.coords, ret.arg)
                    ELSE Every(InXyz(self), InXyz(other), ret.arg)

\* C10, as stated: a.mix(b) with an amount of 0 or less has a's model, a's
\* three coordinates and a's alpha, and with an amount of 1 or more it has the
\* coordinates of b converted into a's model and b's alpha, whatever the hue,
\* easing and gamma options and the two alphas are.
C10_MixEndpoints ==
    (ret.op = "mix" /\ ret.status = "ok") =>
        /\ ret.value.model = self.model
        /\ Le(ret.arg.amount, N(0)) => ret.value.coords = self.coords
        /\ Le(N(1), ret.arg.amount) =>
              ret.value.coords =
                  Append(SubSeq(in(other, self.model, Now).value.coords, 1, 3), other.coords[4])

-----------------------------------------------------------------------------
(* C11: mixing with premultiplied alpha.                                     *)

\* the eased, gamma-corrected amount of a mix whose amount lies in (0, 1)
Eased(arg) == Pow(EASINGS(arg.easing, arg.amount), Div(N(1), arg.gamma))

\* a mix with an amount strictly between 0 and 1 and one alpha below 1
Translucent ==
    /\ ret.op = "mix" /\ ret.status = "ok"
    /\ Lt(N(0), ret.arg.amount) /\ Lt(ret.arg.amount, N(1))
    /\ Lt(self.coords[4], N(1)) \/ Lt(other.coords[4], N(1))

\* C11: for 0 < amount < 1 and an alpha below 1, a.mix(b) has the alpha
\* alpha_a * (1 - t') + alpha_b * t' and every component but the hue is
\* (c_a * alpha_a * (1 - t') + c_b * alpha_b * t') / alpha', or 0 when alpha'
\* is 0; the hue is interpolated between the two hues as they are.
C11_PremultipliedMix ==
    Translucent =>
        LET tt == Eased(ret.arg)
            a == self.coords
            b == in(other, self.model, Now).value.coords
            h == HueIndex(Get(colorModels, self.model).components)
            alpha == Add(Mul(a[4], Sub(N(1), tt)), Mul(other.coords[4], tt))
        IN /\ ret.value.coords[4] = alpha
           /\ \A i \in 1..3 :
                 ret.value.coords[i] =
                     IF i - 1 = h THEN interpolate(a[i], b[i], tt, ret.arg.hue)
                     ELSE IF alpha = N(0) THEN N(0)
                     ELSE Div(Add(Mul(Mul(a[i], a[4]), Sub(N(1), tt)),
                                  Mul(Mul(b[i], other.coords[4]), tt)), alpha)

-----------------------------------------------------------------------------
(* C12: the arc a hue travels.                                               *)

\* a mix of two Colors of a model with a hue, by one of the two arc methods
HueMix ==
    /\ ret.op = "mix" /\ ret.status = "ok"
    /\ ret.arg.hue \in {"shorter", "longer"}
    /\ HueIndex(Get(colorModels, self.model).components) = 0

\* (h2 - h1) mod 360 in [0, 360)
Turn == Wrap360(Sub(in(other, self.model, Now).value.coords[1], self.coords[1]))

\* the arc of `longer` for the arc d of `shorter`
Complement(d) == IF Le(N(0), d) THEN Sub(d, N(360)) ELSE Add(d, N(360))

\* the clamped, eased, gamma-corrected amount
EasedClamped(arg) ==
    Eased([arg EXCEPT !.amount = MathMax(N(0), MathMin(N(1), arg.amount))])

\* C12, as stated: the hue of a mix by `shorter` is (h1 + t' * d) mod 360 with
\* d the difference (h2 - h1) mod 360 taken in [-180, 180), and by `longer` it
\* uses the complementary arc; the hue always lies in [0, 360).
C12_HueArcHalfOpenBelow ==
    HueMix =>
        LET d == IF Le(N(180), Turn) THEN Sub(Turn, N(360)) ELSE Turn
            arc == IF ret.arg.hue = "shorter" THEN d ELSE Complement(d)
        IN /\ ret.value.coords[1] =
                  Wrap360(Add(self.coords[1], Mul(EasedClamped(ret.arg), arc)))
           /\ Le(N(0), ret.value.coords[1]) /\ Lt(ret.value.coords[1], N(360))

\* C12, amended: for an amount strictly between 0 and 1, the hue of a mix by
\* `shorter` is (h1 + t' * d) mod 360 with d the difference (h2 - h1) mod 360
\* taken in (-180, 180] (two hues half a turn apart are joined through
\* increasing angles), and by `longer` it uses the complementary arc; the hue
\* lies in [0, 360).
C12_HueArcHalfOpenAbove ==
    (HueMix /\ Lt(N(0), ret.arg.amount) /\ Lt(ret.arg.amount, N(1))) =>
        LET d == IF Lt(N(180), Turn) THEN Sub(Turn, N(360)) ELSE Turn
            arc == IF ret.arg.hue = "shorter" THEN d ELSE Complement(d)
        IN /\ ret.value.coords[1] =
                  Wrap360(Add(self.coords[1], Mul(Eased(ret.arg), arc)))
           /\ Le(N(0), ret.value.coords[1]) /\ Lt(ret.value.coords[1], N(360))

\* the hues 120 and 300, half a turn apart, mixed at 0.5 by `shorter`: 210
C12_Witness ==
    /\ HueMix /\ ret.arg.hue = "shorter" /\ ret.arg.amount = Rat(1, 2)
    /\ ret.arg.easing = "linear" /\ ret.arg.gamma = N(1)
    /\ self.coords[1] = N(120) /\ other.coords[1] = N(300)
    /\ ret.value.coords[1] = N(210)

-----------------------------------------------------------------------------
(* C13: the weights of color-mix().                                          *)

\* configure({ defaults: { fit: "none" } })
FitNone == <<[k |-> "defaults", v |-> Obj(<<[k |-> "fit", v |-> Str("none")]>>)]>>

\* 30%, 50%, 0% and 12.5%
Whole(n) == Percent(FALSE, n, N(0))
MixWeights ==
    { NoWeight, CalcWeight, Leading(Whole(30)), Leading(Percent(FALSE, 12, Rat(1, 2))),
      Trailing(Whole(30)), Trailing(Whole(50)), Trailing(Whole(0)),
      Trailing(Percent(FALSE, 12, Rat(1, 2))) }

\* color-mix(in rgb, rgb(240 0 0) [p1], rgb(0 0 80) [p2]), the same with the
\* translucent rgb(0 160 0 / 0.5), and one with a hue method
MixInputs ==
    { ColorMix("rgb", "", Part(Call("rgb", <<N(240), N(0), N(0)>>), w1),
               Part(Call("rgb", <<N(0), N(0), N(80)>>), w2)) :
        w1 \in MixWeights, w2 \in MixWeights }
    \cup { ColorMix("rgb", hue, Part(Call("rgb", <<N(240), N(0), N(0)>>), w1),
                    Part(Call("rgb", <<N(0), N(160), N(0), Rat(1, 2)>>), Trailing(Whole(50)))) :
             w1 \in {NoWeight, Trailing(Whole(30))}, hue \in {"", "shorter"} }

\* Color.from(color), the result not kept
Parse(colors) ==
    /\ \E color \in colors : Commit("from", [target |-> "none", color |-> color], from(color, Now))
    /\ UNCHANGED heap

InitColorMix == Init

NextColorMix ==
    \/ Configure({FitNone})
    \/ Parse(MixInputs)

SpecColorMix == InitColorMix /\ [][NextColorMix]_vars

\* the percentage a text denotes, as a fraction of 1
Denotes(text) ==
    LET v == Div(Add(N(text.whole), text.frac), N(100)) IN IF text.neg THEN Sub(N(0), v) ELSE v

Given(part) == part.weight.at \in {"leading", "trailing"}

\* a color-mix() whose weights are percentages or missing
PercentageMix ==
    /\ ret.op = "from" /\ ret.arg.color.head = "color-mix" /\ ret.arg.color.hue = ""
    /\ \A i \in 1..2 : ret.arg.color.parts[i].weight.at # "calc"

\* the weight of part i: its percentage, else 100% minus the other one, else 50%
Weight(parts, i) ==
    IF Given(parts[i]) THEN Denotes(parts[i].weight.text)
    ELSE IF Given(parts[3 - i]) THEN Sub(N(1), Denotes(parts[3 - i].weight.text))
    ELSE Rat(1, 2)

\* C13: in color-mix(in m, c1 [p1], c2 [p2]) a missing weight is 100% minus the
\* other one and both are 50% when both are missing; two given weights whose
\* sum is 0 make the parse fail; otherwise c1 and c2 are mixed in m with the
\* amount p2 / (p1 + p2), their alphas multiplied by p1 + p2 when that is below
\* 100% and left alone otherwise, and the result is what is returned in rgb.
C13_ColorMixWeights ==
    PercentageMix =>
        LET parts == ret.arg.color.parts
            p1 == Weight(parts, 1)
            p2 == Weight(parts, 2)
            total == Add(p1, p2)
            c1 == from(parts[1].color, Now).value
            c2 == from(parts[2].color, Now).value
            mixed == MixInRgb(c1, c2, ret.arg.color.in, "shorter", Div(p2, total),
                              IF Lt(total, N(1)) THEN total ELSE N(1), Now)
        IN IF Given(parts[1]) /\ Given(parts[2]) /\ total = N(0)
           THEN ret.status = "throw"
           ELSE /\ ret.status = mixed.status
                /\ ret.status = "ok" => ret.value.model = "rgb" /\ ret.value.coords = mixed.value

-----------------------------------------------------------------------------
(* Named colours.                                                            *)

\* Programs that register named colours, remove the named-color type or the
\* rgb model, read a name with Color.from and convert rgb Colors to
\* named-color.
NamedNames == {"My Fn", "Sea 2"}
NamedTriples == {<<1, 2, 3>>, <<255, 0, 0>>, <<1, 2>>, <<300, 0, 0>>}
NamedWords == {Ident("myfn"), Ident("sea"), Ident("red")}
NamedCoords == {<<N(1), N(2), N(3)>>, <<N(300), N(0), N(0)>>, <<N(255), N(0), N(0)>>}

InitNamed == Init

NextNamed ==
    \/ RegisterNamedColor(NamedNames, NamedTriples)
    \/ Unregister({"named-color", "rgb"})
    \/ From({"self"}, NamedWords)
    \/ Construct({"self"}, {"rgb"}, NamedCoords)
    \/ To({"named-color"}, {"none"}, {NoPrecision})

SpecNamed == InitNamed /\ [][NextNamed]_vars

\* the names registerNamedColor has added
RegisteredNames == {n \in KeySet(namedColors) : ~HasOwn(namedColors0, n)}

\* [r, g, b] as channels of a Color
Channels(rgb) == [i \in 1..Len(rgb) |-> N(rgb[i])]

\* the named-color type and the rgb model are registered
NamedAndRgbRegistered == HasOwn(colorTypes, "named-color") /\ HasOwn(colorModels, "rgb")

\* C14, as stated: after registerNamedColor(name, [r, g, b]) has succeeded and
\* while the named-color type and the rgb model are registered, Color.from of
\* the normalized name yields rgb [r, g, b] with alpha 1, and converting an rgb
\* Color with exactly those channels to named-color yields that name.
C14_NamedColorRoundTrip ==
    NamedAndRgbRegistered =>
        \A n \in RegisteredNames :
            /\ (ret.op = "from" /\ ret.arg.color = Ident(n)) =>
                    /\ ret.status = "ok"
                    /\ ret.value.model = "rgb"
                    /\ ret.value.coords = Channels(Get(namedColors, n)) \o <<N(1)>>
            /\ (/\ ret.op = "to" /\ ret.arg.type = "named-color"
                /\ self.model = "rgb"
                /\ SubSeq(self.coords, 1, 3) = Channels(Get(namedColors, n))) =>
                    ret.status = "ok" /\ ret.value = Ident(n)

\* C14 for triples of integers within 0..255
C14_InRange ==
    NamedAndRgbRegistered =>
        \A n \in RegisteredNames :
            (\A i \in 1..3 : Get(namedColors, n)[i] \in 0..255) =>
                /\ (ret.op = "from" /\ ret.arg.color = Ident(n)) =>
                        /\ ret.status = "ok"
                        /\ ret.value.model = "rgb"
                        /\ ret.value.coords = Channels(Get(namedColors, n)) \o <<N(1)>>
                /\ (/\ ret.op = "to" /\ ret.arg.type = "named-color"
                    /\ self.model = "rgb"
                    /\ SubSeq(self.coords, 1, 3) = Channels(Get(namedColors, n))) =>
                        ret.status = "ok" /\ ret.value = Ident(n)

-----------------------------------------------------------------------------
(* Hex colours.                                                              *)

\* Programs that read hex strings with Color.from and convert the Color to
\* hex-color: every string of 2 to 4 characters over HexChars, and strings with
\* other characters or of 5 to 9 characters.
HexChars == {"8", "F"}
HexInputs ==
    {Hex(q) : q \in (SeqsUpTo(HexChars, 4) \ SeqsUpTo(HexChars, 1))}
    \cup { Hex(<<"0", "c", "g">>), Hex(<<"c", "0", "7", "0">>), Hex(<<"0", "c", "7", "G">>) }
    \cup { Hex(<<"1", "2", "3", "4", "5">>), Hex(<<"f", "f", "8", "0", "0", "0">>),
           Hex(<<"0", "A", "b", "C", "d", "e">>), Hex(<<"1", "2", "3", "4", "5", "g">>),
           Hex(<<"1", "2", "3", "4", "5", "6", "7">>),
           Hex(<<"1", "2", "3", "4", "5", "6", "8", "0">>),
           Hex(<<"9", "9", "e", "E", "0", "7", "f", "f">>),
           Hex(<<"9", "9", "e", "E", "0", "7", "0", "0">>),
           Hex(<<"9", "9", "e", "E", "0", "7", "0", "x">>),
           Hex(<<"1", "2", "3", "4", "5", "6", "7", "8", "9">>) }

InitHex == Init

NextHex ==
    \/ From({"self"}, HexInputs)
    \/ To({"hex-color"}, {"none", "clip"}, {NoPrecision})

SpecHex == InitHex /\ [][NextHex]_vars

\* the hex digits, and the upper-case ones
HexDigits ==
    {"0", "1", "2", "3", "4", "5", "6", "7", "8", "9", "a", "b", "c", "d", "e", "f",
     "A", "B", "C", "D", "E", "F"}
UpperHexDigits == HexDigits \ {"a", "b", "c", "d", "e", "f"}

\* the byte two hex digits denote
Byte(high, low) == 16 * HexDigit(high) + HexDigit(low)

\* what a well-formed hex string denotes: [r, g, b, a / 255]
HexValue(digits) ==
    LET short == Len(digits) <= 4
        byte(i) == IF short THEN Byte(digits[i], digits[i])
                   ELSE Byte(digits[2 * i - 1], digits[2 * i])
        alpha == IF Len(digits) \in {3, 6} THEN N(1) ELSE Rat(byte(4), 255)
    IN <<N(byte(1)), N(byte(2)), N(byte(3)), alpha>>

WellFormedHex(digits) ==
    Len(digits) \in {3, 4, 6, 8} /\ \A i \in DOMAIN digits : digits[i] \in HexDigits

-----------------------------------------------------------------------------
(* Plugins.                                                                  *)

\* Programs that call use() with up to two arguments.
PluginArguments == PluginFunctions \cup {"notAFunction"}
PluginLists == SeqsUpTo(PluginArguments, 2)

InitUse == Init

NextUse == Use(PluginLists)

SpecUse == InitUse /\ [][NextUse]_vars

\* the invocations of `plugin` that returned
Completions(plugin) == {i \in DOMAIN results[plugin] : results[plugin][i] = "return"}

\* C16: a plugin function that has run to completion is never invoked again,
\* in the same use() call or a later one, and the plugin set holds exactly the
\* functions that ran to completion.
C16_CompletedPluginRunsOnce ==
    /\ \A plugin \in PluginFunctions :
          \A i \in Completions(plugin) : i = Len(results[plugin])
    /\ plugins = {plugin \in PluginFunctions : Completions(plugin) # {}}

\* onceBad threw once and ran to completion after, and pluginA has been handed
\* to use() twice in one call
C16_Witness ==
    /\ ret.op = "use" /\ ret.status = "ok"
    /\ ret.arg = <<"pluginA", "pluginA">>
    /\ results["onceBad"] = <<"throw", "return">>
    /\ results["pluginA"] = <<"return">>
    /\ plugins = {"onceBad", "pluginA"}

\* the step is a use() call: its arguments, the functions it invoked, those of
\* them that threw and never returned in this call
UseStep == ret'.op = "use" /\ Len(ret'.arg) >= 1
InvokedNow(plugin) == Len(results'[plugin]) > Len(results[plugin])
RaisedNow(plugin) ==
    /\ InvokedNow(plugin)
    /\ \A i \in (Len(results[plugin]) + 1)..Len(results'[plugin]) :
          results'[plugin][i] = "throw"

\* argument i of the call is at fault: it is no function, or it threw
Faulty(i) == ~IsFunction(ret'.arg[i]) \/ RaisedNow(ret'.arg[i])

\* C17, as stated: within one use() call with at least one argument, a fault
\* in one plugin argument does not block the batch: every other plugin function
\* in the argument list is still invoked, whatever its position, and a plugin
\* that raised is not recorded in the plugin set.
C17_FaultDoesNotBlockBatch ==
    [][UseStep =>
        /\ \A i \in DOMAIN ret'.arg :
              Faulty(i) =>
                  \A j \in DOMAIN ret'.arg :
                      (IsFunction(ret'.arg[j]) /\ ret'.arg[j] # ret'.arg[i]) =>
                          InvokedNow(ret'.arg[j])
        /\ \A plugin \in PluginFunctions : RaisedNow(plugin) => plugin \notin plugins']_vars

\* the index of the first argument that is no function, Len + 1 without one
FirstNonFunction(pluginFns) ==
    LET bad == {i \in DOMAIN pluginFns : ~IsFunction(pluginFns[i])}
    IN IF bad = {} THEN Len(pluginFns) + 1 ELSE CHOOSE i \in bad : \A j \in bad : i <= j

\* C17, amended: when every argument is a function, a plugin that raises does
\* not block the batch: every other plugin function in the argument list that
\* is not yet in the plugin set is still invoked, whatever its position, and a
\* plugin that raised is not recorded.  An argument that is no function makes
\* use() raise a TypeError when its loop reaches it: the arguments before it
\* are treated as above, a function that only comes after it is not invoked.
C17_RaisingPluginDoesNotBlockBatch ==
    [][UseStep =>
        LET first == FirstNonFunction(ret'.arg)
            before == {ret'.arg[i] : i \in 1..(first - 1)}
        IN /\ ret'.status = IF first > Len(ret'.arg) THEN "ok" ELSE "throw"
           /\ \A plugin \in PluginFunctions :
                 InvokedNow(plugin) <=> (plugin \in before /\ plugin \notin plugins)
           /\ \A plugin \in PluginFunctions : RaisedNow(plugin) => plugin \notin plugins']_vars

\* use(onceBad, pluginB): onceBad threw, its only invocation, and pluginB ran
C17_Witness ==
    /\ ret.op = "use" /\ ret.status = "ok"
    /\ ret.arg = <<"onceBad", "pluginB">>
    /\ results["onceBad"] = <<"throw">>
    /\ results["pluginB"] = <<"return">>
    /\ plugins = {"pluginB"}

-----------------------------------------------------------------------------
(* The configuration.                                                        *)

\* Options handed to configure: a theme, an undefined theme, one system colour
\* given as a new pair, a new section, and the object that
\* JSON.parse('{"__proto__": {"polluted": "yes"}}') returns.
ThemeDark == <<[k |-> "theme", v |-> Str("dark")]>>
ThemeUndefined == <<[k |-> "theme", v |-> JsUndefined]>>
CanvasPair ==
    <<[k |-> "systemColors",
       v |-> Obj(<<[k |-> "Canvas", v |-> Arr(<<<<1, 1, 1>>, <<2, 2, 2>>>>)]>>)]>>
ProtoKey == <<[k |-> "__proto__", v |-> Obj(<<[k |-> "polluted", v |-> Str("yes")]>>)]>>
ConfigOptions == {ThemeDark, ThemeUndefined, CanvasPair, FitNone, ProtoKey}

InitConfigure == Init

NextConfigure == Configure(ConfigOptions)

SpecConfigure == InitConfigure /\ [][NextConfigure]_vars

\* the configuration the claim describes: the keys of `entries` with a value
\* other than undefined are set, objects key by key, every other key is kept
RECURSIVE DeepMerge(_, _)
DeepMerge(target, entries) ==
    IF entries = <<>> THEN target
    ELSE LET key == Head(entries).k
             value == Head(entries).v
             old == IF HasOwn(target, key) /\ Get(target, key).t = "object"
                    THEN Get(target, key).o ELSE <<>>
         IN DeepMerge(CASE value.t = "undefined" -> target
                        [] value.t = "object" ->
                              Put(target, key, Obj(DeepMerge(old, value.o)))
                        [] OTHER -> Put(target, key, value),
                      Tail(entries))

\* C18, as stated: configure(options) changes only the configuration keys that
\* occur in options with a value other than undefined: nested objects are
\* merged key by key, an array replaces the previous value wholesale, every key
\* not mentioned keeps its value; nothing but the configuration changes.
C18_ConfigureMergesOptions ==
    [][ret'.op = "configure" =>
          /\ config' = DeepMerge(config, ret'.arg)
          /\ UNCHANGED <<registry, cache, objectPrototype, plugins, heap>>]_vars

\* C18 for options that hold no key "__proto__", given before any such options
C18_PlainOptions ==
    [][(ret'.op = "configure" /\ ~HasOwn(ret'.arg, "__proto__") /\ objectPrototype = <<>>) =>
          /\ config' = DeepMerge(config, ret'.arg)
          /\ UNCHANGED <<registry, cache, objectPrototype, plugins, heap>>]_vars

-----------------------------------------------------------------------------
(* The theme.                                                                *)

\* Programs that switch the theme, set the default fit method and read
\* light-dark() and system colours with Color.from.
ThemeLight == <<[k |-> "theme", v |-> Str("light")]>>
Green == Call("hsl", <<N(120), N(100), N(50)>>)
ThemeInputs ==
    { LightDark(<<Ident("red"), Ident("white")>>),
      LightDark(<<Hex(<<"0", "8", "f">>), Call("rgb", <<N(1), N(2), N(3), Rat(1, 2)>>)>>),
      LightDark(<<Green, Ident("red")>>), LightDark(<<Ident("white"), Green>>),
      Ident("LinkText"), Ident("canvas") }

InitTheme == Init

NextTheme ==
    \/ Configure({ThemeLight, ThemeDark, FitNone})
    \/ From({"self", "other"}, ThemeInputs)

SpecTheme == InitTheme /\ [][NextTheme]_vars

\* 1 while the theme is light, 2 otherwise
ThemeIndex == IF Get(config, "theme") = Str("light") THEN 1 ELSE 2

\* the colour a string denotes, as an rgb Color
InRgb(color) == Then(from(color, Now), LAMBDA made : in(made.value, "rgb", made.st))

\* the last call was Color.from of a light-dark() string / of a system colour
FromLightDark == ret.op = "from" /\ ret.arg.color.head = "light-dark"
FromSystemColor == ret.op = "from" /\ SystemColorKey(ToLowerCase(ret.arg.color.head)) # ""

\* what C19 says of the last call
ResolvedByTheme ==
    /\ FromLightDark =>
          LET chosen == InRgb(ret.arg.color.parts[ThemeIndex])
          IN /\ chosen.exact
             /\ ret.status = "ok"
             /\ ret.value.model = "rgb"
             /\ ret.value.coords = chosen.value.coords
    /\ FromSystemColor =>
          LET key == SystemColorKey(ToLowerCase(ret.arg.color.head))
          IN /\ ret.status = "ok"
             /\ ret.value.model = "rgb"
             /\ ret.value.coords =
                   Channels(Get(systemColors, key).a[ThemeIndex]) \o <<N(1)>>

\* C19, as stated: light-dark(c1, c2) and system colours are resolved against
\* the theme in force when Color.from is called: c1 (or the first entry of the
\* pair) while the theme is light, c2 (or the second entry) after
\* configure({ theme: "dark" }); a Color made before a change of theme keeps
\* its coords.
C19_ResolvedAtCall ==
    /\ [](ResolvedByTheme)
    /\ [][ret'.op = "configure" => UNCHANGED heap]_vars

\* C19 for light-dark() of colours written in rgb (names, hex strings, rgb()),
\* read where toArray() finds its default fit method
C19_RgbColors ==
    /\ []((FromLightDark /\ Green \notin {ret.arg.color.parts[i] : i \in 1..2}
                /\ (build = "src" \/ DefaultFit = "none"))
             => ResolvedByTheme)
    /\ [](FromSystemColor => ResolvedByTheme)
    /\ [][ret'.op = "configure" => UNCHANGED heap]_vars

-----------------------------------------------------------------------------
(* calc() expressions.                                                       *)

\* Programs that read color(xyz calc(a op b op c) calc(0) calc(0)) for two
\* triples of operands and every pair of operators, and a few expressions with
\* a sign, parentheses or a missing operand or operator.
Operands == {<<2, 3, 2>>, <<3, 2, 3>>}
Operators == {"+", "-", "*", "/", "%", "**"}
Chain(a, op1, b, op2, c) == <<Num(N(a)), Op(op1), Num(N(b)), Op(op2), Num(N(c))>>
Zero == <<Num(N(0))>>
Chains ==
    { Chain(abc[1], op1, abc[2], op2, abc[3]) :
        abc \in Operands, op1 \in Operators, op2 \in Operators }
CalcInputs ==
    { CalcCall("xyz", <<e, Zero, Zero>>) : e \in Chains }
    \cup { CalcCall("xyz", <<<<Op("("), Num(N(1)), Op("+"), Num(N(2)), Op(")"), Op("*"),
                               Num(N(3))>>, Zero, Zero>>),
           CalcCall("xyz", <<<<Op("-"), Num(N(2)), Op("**"), Num(N(2))>>, Zero, Zero>>),
           CalcCall("xyz", <<<<Num(N(2)), Op("**")>>, Zero, Zero>>),
           CalcCall("xyz", <<<<Num(N(2)), Num(N(3))>>, Zero, Zero>>) }

InitCalc == Init

NextCalc == Parse(CalcInputs)

SpecCalc == InitCalc /\ [][NextCalc]_vars

\* the levels of binding the claim names: ** above * / %, these above + -
Level(op) == IF op = "**" THEN 3 ELSE IF op \in {"*", "/", "%"} THEN 2 ELSE 1

\* the last call read a b c joined by two operators
ReadChain ==
    /\ ret.op = "from" /\ "calc" \in DOMAIN ret.arg.color
    /\ Len(ret.arg.color.calc[1]) = 5
    /\ \A i \in {1, 3, 5} : ret.arg.color.calc[1][i].type = "number"

\* a op1 (b op2 c) and (a op1 b) op2 c
GroupRight(e) ==
    BinaryValue(e[2].op, e[1].num, BinaryValue(e[4].op, e[3].num, e[5].num).value).value
GroupLeft(e) ==
    BinaryValue(e[4].op, BinaryValue(e[2].op, e[1].num, e[3].num).value, e[5].num).value

\* C20, as stated: in a calc() expression ** is right-associative and binds
\* tighter than *, / and %, which bind tighter than + and -: a ** b ** c is
\* a ** (b ** c), and of two operators of different levels the higher binds
\* first.
C20_ExponentRightAssociative ==
    ReadChain =>
        LET e == ret.arg.color.calc[1]
        IN /\ (e[2].op = "**" /\ e[4].op = "**") =>
                 ret.status = "ok" /\ ret.value.coords[1] = GroupRight(e)
           /\ Level(e[4].op) > Level(e[2].op) =>
                 ret.status = "ok" /\ ret.value.coords[1] = GroupRight(e)
           /\ Level(e[4].op) < Level(e[2].op) =>
                 ret.status = "ok" /\ ret.value.coords[1] = GroupLeft(e)

\* C20 without the associativity of **: the levels of binding, and what the
\* code makes of a ** b ** c: (a ** b) ** c
C20_LevelsOfBinding ==
    ReadChain =>
        LET e == ret.arg.color.calc[1]
        IN /\ (e[2].op = "**" /\ e[4].op = "**") =>
                 ret.status = "ok" /\ ret.value.coords[1] = GroupLeft(e)
           /\ Level(e[4].op) > Level(e[2].op) =>
                 ret.status = "ok" /\ ret.value.coords[1] = GroupRight(e)
           /\ Level(e[4].op) < Level(e[2].op) =>
                 ret.status = "ok" /\ ret.value.coords[1] = GroupLeft(e)

-----------------------------------------------------------------------------
(* C21: the legacy comma-separated form of a colour function.                *)

\* Programs that read rgb(), hsl() and lab() written with commas and with
\* whitespace, every component a number, a percentage or `none`, with and
\* without an alpha introduced by "," or by "/".
ComponentTokens == {NumberToken(N(10)), PercentToken(N(50)), NoneToken}
AlphaTokens == {NumberToken(Rat(1, 2)), NoneToken}
LegacyHeads == {"rgb", "hsl", "lab"}
Commas(c1, c2, c3) == <<c1, Comma, c2, Comma, c3>>
Spaces(c1, c2, c3) == <<c1, c2, c3>>
LegacyInputs ==
    { FunctionCall(head, Commas(c1, c2, c3)) :
        head \in LegacyHeads, c1 \in ComponentTokens, c2 \in ComponentTokens,
        c3 \in ComponentTokens }
    \cup { FunctionCall(head, Spaces(c1, c2, c3)) :
        head \in LegacyHeads, c1 \in ComponentTokens, c2 \in ComponentTokens,
        c3 \in ComponentTokens }
    \cup { FunctionCall(head, form \o <<sep, a>>) :
        head \in LegacyHeads, sep \in {Comma, Slash}, a \in AlphaTokens,
        form \in { Commas(c, PercentToken(N(50)), PercentToken(N(50))) : c \in ComponentTokens }
                 \cup { Spaces(c, PercentToken(N(50)), PercentToken(N(50))) :
                          c \in ComponentTokens } }
    \cup { FunctionCall("rgb", <<NumberToken(N(10)), WordToken, NumberToken(N(10))>>),
           FunctionCall("rgb", <<NumberToken(N(10)), Comma, NumberToken(N(10))>>) }

InitLegacy == Init

NextLegacy == Parse(LegacyInputs)

SpecLegacy == InitLegacy /\ [][NextLegacy]_vars

\* the last call read a colour function given by its tokens
ReadTokens == ret.op = "from" /\ "tokens" \in DOMAIN ret.arg.color

\* the tokens are c1, c2, c3 with or without a fourth token after `sep`
CommaForm(tokens) ==
    /\ Len(tokens) \in {5, 7}
    /\ tokens[2] = Comma /\ tokens[4] = Comma
    /\ \A i \in {1, 3, 5} : tokens[i] \in ComponentTokens
WhitespaceForm(tokens) ==
    /\ Len(tokens) \in {3, 5}
    /\ \A i \in 1..3 : tokens[i] \in ComponentTokens
    /\ Len(tokens) = 5 => tokens[4] = Slash /\ tokens[5] \in AlphaTokens

\* the tokens of the components that are neither angles nor percentages, in
\* the model `name`
NumberComponents(name, c) ==
    {c[i] : i \in {i \in 1..3 : DefAt(Get(colorModels, name).components, i - 1).value.kind
                                   \notin {"angle", "percentage"}}}
Mixture(tokens) ==
    \E a, b \in tokens : a.t = "percent" /\ b.t = "number"

\* what C21 says of the last call
LegacyRules ==
    LET name == ret.arg.color.head
        tokens == ret.arg.color.tokens
        c == <<tokens[1], tokens[3], tokens[5]>>
    IN /\ (CommaForm(tokens) /\ ~Get(colorModels, name).supportsLegacy)
              => ret.status = "throw"
       /\ (CommaForm(tokens) /\ \E i \in DOMAIN tokens : tokens[i] = NoneToken)
              => ret.status = "throw"
       /\ (CommaForm(tokens) /\ Mixture(NumberComponents(name, c)))
              => ret.status = "throw"
       /\ (CommaForm(tokens) /\ Len(tokens) = 7 /\ tokens[6] = Slash)
              => ret.status = "throw"
       /\ WhitespaceForm(tokens)
              => ret.status = "ok" /\ ret.value.model = name

\* C21: in the legacy comma-separated form, parsing fails when the model does
\* not declare supportsLegacy, when any component token is `none`, or when the
\* components that are neither angles nor percentages are a mixture of
\* percentages and bare numbers; the same tokens in the modern whitespace form
\* are accepted, and a comma form whose alpha is introduced by "/" instead of
\* a comma is rejected.
C21_LegacyCommaForm == ReadTokens => LegacyRules

\* rgb(10, 50%, 10) was rejected for its mixture of numbers and percentages
C21_Witness ==
    /\ ReadTokens
    /\ ret.arg.color =
          FunctionCall("rgb", Commas(NumberToken(N(10)), PercentToken(N(50)),
                                     NumberToken(N(10))))
    /\ ret.status = "throw"
    /\ ret.error = "<number> components must all be numbers or all percentages."

-----------------------------------------------------------------------------
(* C22: the suffixes of format.                                              *)

\* Programs that make a Color in a model with an angle, with percentages or
\* with ranges only, and print it with every choice of legacy and units.
FormatModels == {"rgb", "hsl", "hwb", "lab", "lch", "oklch", "srgb"}
FormatCoords == {<<N(120), N(50), N(25)>>, <<N(0), N(1), N(0), Rat(1, 2)>>}
FormatOptions ==
    { Options(legacy, units, method, NoPrecision) :
        legacy \in BOOLEAN, units \in BOOLEAN, method \in {"none", "clip"} }

InitFormat == Init

NextFormat ==
    \/ Construct({"self"}, FormatModels, FormatCoords)
    \/ ToStringOptions(FormatOptions)

SpecFormat == InitFormat /\ [][NextFormat]_vars

\* the last call was toString(options) and returned a string
Printed == ret.op = "toString" /\ "legacy" \in DOMAIN ret.arg /\ ret.status = "ok"

\* the type of the component of self at position i (0, 1, 2)
KindAt(i) == DefAt(Get(colorModels, self.model).components, i).value.kind

-----------------------------------------------------------------------------
(* C23: the names of the fit methods.                                        *)

\* get("fit-methods")
FitMethodsList == <<"none", "clip">> \o Keys(fitMethods)

\* Programs that register fit methods under the names of the built-in ones
\* and under a new name, and fit coordinates with them.
FitMethodNames == {"none", "clip", "chroma-reduction", "css-gamut-map", "My Fn"}
FitCoords == {<<N(300), N(-20), N(128)>>, <<N(10), N(20), N(30)>>}
FitMethodsUsed == {"none", "clip", "my-fn", "nope"}

InitFit == Init

NextFit ==
    \/ RegisterFitMethod(FitMethodNames, FitFunctions)
    \/ Fit(FitCoords, {"rgb"}, FitMethodsUsed, {NullPrecision})

SpecFit == InitFit /\ [][NextFit]_vars

BuiltInFitMethods == {"none", "clip", "chroma-reduction", "css-gamut-map"}

\* the last call was fit with a method a caller registered as "halve", and
\* returned what that function returns
Halved ==
    /\ ret.status = "ok"
    /\ ret.value = [i \in 1..3 |-> Div(ret.arg.coords[i], N(2))]

\* C23, as stated: after any sequence of registerFitMethod calls, no
\* fit-method name is registered twice and get("fit-methods") lists no name
\* twice: registering a name equal to an existing method, including each
\* built-in none, clip, chroma-reduction and css-gamut-map, is rejected, and
\* fit with method n always invokes the function that was registered under n.
C23_FitMethodNamesUnique ==
    /\ \A i, j \in DOMAIN FitMethodsList :
          FitMethodsList[i] = FitMethodsList[j] => i = j
    /\ (ret.op = "registerFitMethod" /\ ret.name \in BuiltInFitMethods)
          => ret.status = "throw"
    /\ (ret.op = "fit" /\ HasOwn(fitMethods, ret.arg.fit)
           /\ Get(fitMethods, ret.arg.fit) = "halve") => Halved

\* C23 for the table fitMethods alone: its keys are registered once, a name
\* that is one of its keys is rejected, and a method other than none and clip
\* invokes the function registered under its name
C23_TableNamesUnique ==
    /\ \A i, j \in DOMAIN Keys(fitMethods) :
          Keys(fitMethods)[i] = Keys(fitMethods)[j] => i = j
    /\ (ret.op = "registerFitMethod" /\ ret.name \in {"chroma-reduction", "css-gamut-map"})
          => ret.status = "throw"
    /\ (ret.op = "fit" /\ ret.arg.fit \notin {"none", "clip"}
           /\ HasOwn(fitMethods, ret.arg.fit) /\ Get(fitMethods, ret.arg.fit) = "halve")
          => Halved

-----------------------------------------------------------------------------
(* C24: the converters registerColorFunction rejects.                        *)

\* Programs that register colour functions whose components are named
\* H a b, H h b, none a b and None a b, over a registered bridge, over a name
\* that is no model and over a name Object.prototype has, and unregister them.
ComponentNames == {<<"H", "a", "b">>, <<"H", "h", "b">>, <<"none", "a", "b">>,
                   <<"None", "a", "b">>}
NamedComponents(names) ==
    Components(names[1], Def(0, Angle, 1), names[2], Def(1, Range(N(0), N(10)), 2),
               names[3], Def(2, Percentage, 2))
ComponentConverters ==
    { [FunctionConverter("ok", bridge) EXCEPT !.components = NamedComponents(names)] :
        names \in ComponentNames, bridge \in {"xyz-d65", "nope", "constructor"} }

FunctionNames == {"foo", "bar", "My Fn", "hwb"}

InitFunctions == Init

NextFunctions ==
    \/ RegisterColorFunction(FunctionNames, ComponentConverters)
    \/ Unregister({"foo", "bar", "myfn"})

SpecFunctions == InitFunctions /\ [][NextFunctions]_vars

\* two component names of the converter are equal after lower-casing
EqualLowerCased(c) ==
    \E i, j \in DOMAIN c.components :
        i # j /\ LowerKey(c.components[i].k) = LowerKey(c.components[j].k)
NamedNone(c) == \E i \in DOMAIN c.components : c.components[i].k = "none"

\* the step is the call registerColorFunction(name, c) and it was rejected
\* without a change of the three tables
Rejected ==
    /\ ret'.status = "throw"
    /\ UNCHANGED <<colorModels, colorFunctions, colorTypes>>

\* C24, as stated: registerColorFunction rejects a converter that has a
\* component named none, a converter in which two component names are equal
\* after lower-casing, and a converter whose bridge is not a registered model;
\* a rejected call adds nothing to the color-models, color-functions or
\* color-types tables.
C24_RejectsInvalidConverters ==
    [][\A name \in FunctionNames, c \in ComponentConverters :
          registerColorFunction(name, c) =>
             /\ (NamedNone(c) \/ EqualLowerCased(c) \/ ~HasOwn(colorModels, c.bridge))
                   => Rejected
             /\ ret'.status = "throw" => Rejected]_vars

\* C24 without the equal names, and with the bridge looked up as the code
\* does, with `in`
C24_RejectsNoneAndUnknownBridge ==
    [][\A name \in FunctionNames, c \in ComponentConverters :
          registerColorFunction(name, c) =>
             /\ (NamedNone(c) \/ ~JsIn(c.bridge, colorModels)) => Rejected
             /\ ret'.status = "throw" => Rejected]_vars

-----------------------------------------------------------------------------
(* C25 and C26: the path of Color.in.                                        *)

\* Programs that register and unregister the colour function d65-xyz (over
\* xyz-d65, halving and doubling the coordinates), unregister xyz-d65, make
\* Colors of xyz, xyz-d65 and d65-xyz, and convert them to one another and to
\* names that are not registered.
PathModels == {"xyz", "xyz-d65", "d65-xyz"}
PathTargets == PathModels \cup {"nope", "XYZ", "constructor"}

InitPaths == Init

NextPaths ==
    \/ RegisterColorFunction({"d65-xyz"}, {FunctionConverter("ok", "xyz-d65")})
    \/ Unregister({"d65-xyz", "xyz-d65"})
    \/ Construct({"self"}, PathModels, {<<N(2), N(4), N(6)>>})
    \/ In(PathTargets)

SpecPaths == InitPaths /\ [][NextPaths]_vars

\* the graph the claim speaks of: one edge {m, m.bridge} per registered model
Edges == {{colorModels[i].k, colorModels[i].v.bridge} : i \in DOMAIN colorModels}
Nodes == UNION Edges

\* the nodes at most k edges away from the nodes of S
RECURSIVE Reach(_, _)
Reach(S, k) ==
    IF k = 0 THEN S
    ELSE Reach(S \cup {n \in Nodes : \E m \in S : {m, n} \in Edges}, k - 1)

ShortestPath(path, start, end) ==
    /\ path # <<>>
    /\ path[1] = start /\ path[Len(path)] = end
    /\ \A i \in 1..(Len(path) - 1) : {path[i], path[i + 1]} \in Edges
    /\ Len(path) >= 2 => end \notin Reach({start}, Len(path) - 2)

\* the last call was self.in(to), to another model than that of self, and
\* it returned
Converted ==
    /\ ret.op = "in" /\ ret.status = "ok"
    /\ TrimLower(ret.arg) # self.model

\* the path the last call walked: the one the memo holds for its pair
WalkedPath == MapGet(Get(cache, "paths"), CacheKey(self.model, TrimLower(ret.arg)))

\* C25, as stated: for every in(to) call on a Color of model `from` (from
\* different from to) that returns, the sequence of models traversed starts
\* at `from`, ends at `to`, is a shortest path in the undirected graph with one
\* edge {m, m.bridge} per currently registered model m, and is the same whether
\* it was computed by the breadth-first search or read back from the memo keyed
\* by the pair (from, to), for every set of registered model names, including
\* names that contain hyphens.
C25_ShortestPathWalked ==
    Converted =>
        /\ ShortestPath(WalkedPath, self.model, TrimLower(ret.arg))
        /\ WalkedPath = findPath(buildGraph(OwnEntries(colorModels), <<>>), self.model,
                                 TrimLower(ret.arg))

\* no other pair of nodes has the memo key of the pair (start, end)
OwnKey(start, end) ==
    \A a, b \in Nodes : CacheKey(a, b) = CacheKey(start, end) => a = start /\ b = end

\* C25 for the pairs whose memo key no other pair shares
C25_UnambiguousPairs ==
    (Converted /\ OwnKey(self.model, TrimLower(ret.arg))) =>
        /\ ShortestPath(WalkedPath, self.model, TrimLower(ret.arg))
        /\ WalkedPath = findPath(buildGraph(OwnEntries(colorModels), <<>>), self.model,
                                 TrimLower(ret.arg))

\* a chain of bridge edges connects start to end
Connected(start, end) == end \in Reach({start}, Cardinality(Nodes))

\* the memo of paths
PathsOf(c) == IF HasOwn(c, "paths") THEN Get(c, "paths") ELSE {}

\* the step is a call of in that raised an error
FailedQuery == ret'.op = "in" /\ ret'.status = "throw"

\* in(target) raises an error when the target is not registered or not
\* connected, and returns when it is both
RaisesWhenUnreachable ==
    ret.op = "in" =>
        LET target == TrimLower(ret.arg)
        IN /\ (~HasOwn(colorModels, target) \/ ~Connected(self.model, target))
                => ret.status = "throw" /\ ret.value = <<>>
           /\ (HasOwn(colorModels, target) /\ HasOwn(colorModels, self.model)
                 /\ Connected(self.model, target) /\ Nodes \subseteq KeySet(colorModels))
                => ret.status = "ok"

\* C26, as stated: in(target) raises an error, and returns no Color, whenever
\* target is not a registered model or no chain of bridge edges connects the
\* receiver's model to target; a failed query stores no path for that pair in
\* the memo, so a later query for the same pair after the missing model has
\* been registered succeeds.
C26_FailedQueryStoresNoPath ==
    /\ [](RaisesWhenUnreachable)
    /\ [][FailedQuery => PathsOf(cache') = PathsOf(cache)]_vars

\* C26 with the memo left alone by the queries that find no path
C26_NoPathStoresNoPath ==
    /\ [](RaisesWhenUnreachable)
    /\ [][(FailedQuery /\ TrimLower(ret'.arg) \notin Nodes)
             => PathsOf(cache') = PathsOf(cache)]_vars

-----------------------------------------------------------------------------
(* C27: the clip method.                                                     *)

\* Programs that clip coordinates of models with angle, percentage and range
\* components: inside and outside the ranges, on their bounds, and just
\* below a bound so that rounding reaches it.  The precision is left out
\* (that of the component is used), null, 0 or 1.
ClipModels == {"hsl", "rgb", "lab", "oklch"}
ClipCoords ==
    { <<Rat(35996, 100), Rat(1001, 10), Rat(-1, 4)>>,
      <<N(-30), N(50), Rat(7199, 20)>>,
      <<N(720), Rat(9996, 100), N(360)>>,
      <<Rat(1, 4), N(-200), Rat(3596, 10)>>,
      <<N(300), N(-20), N(128)>>,
      <<N(10), N(20), N(30)>> }
ClipPrecisions == {NoPrecision, NullPrecision, Decimals(0), Decimals(1)}

InitClip == Init

NextClip == Fit(ClipCoords, ClipModels, {"clip"}, ClipPrecisions)

SpecClip == InitClip /\ [][NextClip]_vars

\* the last call was fit with method clip, and it returned
Clipped == ret.op = "fit" /\ ret.arg.fit = "clip" /\ ret.status = "ok"

\* the definition of the component whose index is i - 1 in the model clipped
ClipDef(i) == DefAt(Get(colorModels, ret.arg.model).components, i - 1)

\* v lies in the range of the component: [min, max], [0, 100], or [0, 360)
InRange(v, def) ==
    IF def.value.kind = "angle" THEN Le(N(0), v) /\ Lt(v, N(360))
    ELSE Le(def.value.min, v) /\ Le(v, def.value.max)

\* clip applied to its own output, with the same precision
ClippedAgain == fit(ret.value, ret.arg.model, "clip", ret.arg.precision, Now).value

\* C27, as stated: fit with method clip returns three coordinates in which
\* every numeric-range component lies in its declared [min,max], every
\* percentage component lies in [0,100] and every angle component lies in the
\* half-open range [0,360), also after the final rounding to the effective
\* precision; applying it to its own output returns the same coordinates.
C27_ClipInRangeAndIdempotent ==
    Clipped =>
        /\ Len(ret.value) = 3
        /\ \A i \in 1..3 : InRange(ret.value[i], ClipDef(i))
        /\ ClippedAgain = ret.value

\* C27 with the angle's range closed at 360: every coordinate lies in
\* [min, max] of its component, and where no angle was rounded up to 360
\* the angles lie in [0, 360) and clip returns its own output unchanged
C27_ClipInClosedRange ==
    Clipped =>
        /\ Len(ret.value) = 3
        /\ \A i \in 1..3 :
              Le(ClipDef(i).value.min, ret.value[i]) /\ Le(ret.value[i], ClipDef(i).value.max)
        /\ (ret.arg.precision = NullPrecision
              \/ \A i \in 1..3 : ClipDef(i).value.kind = "angle" => ret.value[i] # N(360))
             => /\ \A i \in 1..3 : InRange(ret.value[i], ClipDef(i))
                /\ ClippedAgain = ret.value

-----------------------------------------------------------------------------
(* C28: NaN and the infinities in toArray and toObject.                      *)

\* Programs that register a model foo whose components a, b, c have the
\* indices 0, 1, 2, declared in that order or in the order c, a, b, make
\* Colors of foo and of lab with NaN, Infinity and -Infinity among the
\* coordinates, and read them with toArray and toObject without fitting or
\* rounding.
DeclaredInOrder ==
    Components("a", Def(0, Range(N(0), N(10)), 2), "b", Def(1, Range(N(-5), N(5)), 2),
               "c", Def(2, Angle, 1))
DeclaredOutOfOrder ==
    Components("c", Def(2, Angle, 1), "a", Def(0, Range(N(0), N(10)), 2),
               "b", Def(1, Range(N(-5), N(5)), 2))
ArrayConverters ==
    { [FunctionConverter("ok", "xyz-d65") EXCEPT !.components = cs] :
        cs \in {DeclaredInOrder, DeclaredOutOfOrder} }
ArrayCoords ==
    { <<Infinity, NegInfinity, NaN>>, <<NaN, Infinity, NegInfinity>>,
      <<NegInfinity, NaN, Infinity>>, <<N(1), N(2), N(3)>> }

InitArray == Init

NextArray ==
    \/ RegisterColorFunction({"foo"}, ArrayConverters)
    \/ Construct({"self"}, {"foo", "lab"}, ArrayCoords)
    \/ ToArray({"none"}, {NullPrecision})
    \/ ToObject({"none"}, {NullPrecision})

SpecArray == InitArray /\ [][NextArray]_vars

\* the name of the component of self's model whose declared index is i
NameAt(i) ==
    LET es == OwnEntries(Get(colorModels, self.model).components)
    IN es[CHOOSE j \in DOMAIN es : es[j].v.index = i].k

\* the definition of the component of self's model whose declared index is i
IndexedDef(i) == Get(Get(colorModels, self.model).components, NameAt(i))

\* the definition of the component of self's model declared at position i
DeclaredDef(i) == OwnEntries(Get(colorModels, self.model).components)[i + 1].v

\* 0 for NaN, the maximum of the range for +infinity, the minimum for
\* -infinity, and the stored value otherwise
Expected(c, def) ==
    CASE c = NaN -> N(0)
      [] c = Infinity -> def.value.max
      [] c = NegInfinity -> def.value.min
      [] OTHER -> c

\* the last call read self with toArray or toObject, and returned
ReadArray == ret.op = "toArray" /\ ret.status = "ok"
ReadObject == ret.op = "toObject" /\ ret.status = "ok"

\* C28, as stated: toArray and toObject return, for each of the three color
\* coordinates, 0 when the stored value is NaN, the maximum of that
\* coordinate's component range when it is +infinity and the minimum when it
\* is -infinity, where the range used for position i is that of the
\* component whose declared index is i, independent of the order in which
\* the model's components were declared.
C28_NormalizedByIndex ==
    /\ ReadArray =>
          \A i \in 0..2 : ret.value[i + 1] = Expected(self.coords[i + 1], IndexedDef(i))
    /\ ReadObject =>
          \A i \in 0..2 : Get(ret.value, NameAt(i)) = Expected(self.coords[i + 1], IndexedDef(i))

\* C28 with the range each revision uses: that of the component whose index
\* is i in src/src/Color.ts, that of the i-th declared component in part_002
C28_NormalizedByRevision ==
    LET def(i) == IF build = "src" THEN IndexedDef(i) ELSE DeclaredDef(i)
    IN /\ ReadArray =>
             \A i \in 0..2 : ret.value[i + 1] = Expected(self.coords[i + 1], def(i))
       /\ ReadObject =>
             \A i \in 0..2 : Get(ret.value, NameAt(i)) = Expected(self.coords[i + 1], def(i))

-----------------------------------------------------------------------------
(* C29: the key sets of the tables.                                          *)

\* Programs that register types, bases, functions and spaces and unregister
\* names, among them built-in ones and names in another spelling than the
\* one they were stored under.
InitTables == InitRegistry

NextTables ==
    \/ RegisterColorType(Names) \/ RegisterColorBase(Names)
    \/ RegisterColorFunction(Names, FunctionConverters) \/ RegisterColorSpace(Names)
    \/ Unregister(UnregisterNames)

SpecTables == InitTables /\ [][NextTables]_vars

\* color-spaces is a subset of color-models, color-models and color-functions
\* have the same keys, color-functions and color-bases are subsets of
\* color-types
TableInclusions ==
    /\ KeySet(colorSpaces) \subseteq KeySet(colorModels)
    /\ KeySet(colorModels) = KeySet(colorFunctions)
    /\ KeySet(colorFunctions) \subseteq KeySet(colorTypes)
    /\ KeySet(colorBases) \subseteq KeySet(colorTypes)

\* the keys of the five tables
TableKeys ==
    KeySet(colorTypes) \cup KeySet(colorBases) \cup KeySet(colorFunctions)
        \cup KeySet(colorModels) \cup KeySet(colorSpaces)

\* a registration under a name that is a key of any table is rejected and
\* changes no table
ClashDetected ==
    (ret'.op \in ConverterOps /\ ret'.name \in TableKeys)
        => ret'.status = "throw" /\ UNCHANGED registry

\* C29: in every registry state reachable by any sequence of register_* and
\* unregister calls, color-spaces is a subset of color-models, color-models
\* and color-functions have the same keys, and color-functions and
\* color-bases are each a subset of color-types; so checking a new name
\* against color-types alone detects a clash with any table.
C29_TableKeySets == [](TableInclusions) /\ [][ClashDetected]_vars

\* after xyz-d65 was unregistered, a space named hwb is rejected: hwb is a
\* key of color-functions, color-models and color-types
C29_Witness ==
    /\ ret.op = "registerColorSpace" /\ ret.status = "throw" /\ ret.name = "hwb"
    /\ "hwb" \in KeySet(colorFunctions) \cap KeySet(colorModels) \cap KeySet(colorTypes)
    /\ "xyz-d65" \notin TableKeys
    /\ "xyz" \in KeySet(colorSpaces)

-----------------------------------------------------------------------------
(* C30: the chroma bisections of math.ts.  The bounds of a bisection are     *)
(* held as frame.low / frame.den and frame.high / frame.den; a midpoint      *)
(* doubles the denominator.  Whether oklch(L, chroma, H) is in the target    *)
(* gamut has no rational value: for fixed L and H it is true up to the       *)
(* chroma frame.boundary, chosen when the method is entered.  The outcome of *)
(* each deltaEOK comparison is chosen at the comparison.                     *)

\* const epsilon = 1e-6 (chroma-reduction), const epsilon = 0.0001 (css-gamut-map)
EpsilonDen(method) == IF method = "chroma-reduction" THEN 1000000 ELSE 10000

\* C_high - C_low > epsilon, max - min > epsilon
Wider(f) == (f.high - f.low) * EpsilonDen(f.method) > f.den

\* the frame on both bounds' common denominator doubled
Doubled(f) == [f EXCEPT !.low = 2 * @, !.high = 2 * @, !.den = 2 * @]

\* const C_mid = (C_low + C_high) / 2, as a numerator over 2 * f.den
Mid(f) == f.low + f.high

\* candidate.inGamut(targetGamut, 1e-5)
CandidateInGamut(f) == Mid(f) * f.boundary[2] <= f.boundary[1] * 2 * f.den

\* a bisection that keeps the upper bound when the candidate is out of gamut
KeepUpper(f) == Doubled(f)

\* C_low = C_mid, min = chroma
RaiseLower(f) == [Doubled(f) EXCEPT !.low = Mid(f)]

\* C_high = C_mid, max = chroma
LowerUpper(f) == [Doubled(f) EXCEPT !.high = Mid(f)]

\* the method the fit call inside the bisection uses: config.defaults.fit in
\* src/src/math.ts, "clip" in part_003
InnerFit == IF build = "src" THEN DefaultFit ELSE "clip"

\* that fit call throws: config.defaults is missing, or the method is unknown
InnerFitThrows == InnerFit \notin {"none", "clip"} /\ ~HasOwn(fitMethods, InnerFit)

\* it returns without running a method of fitMethods
InnerFitReturns == InnerFit \in {"none", "clip"}

Left(f, pc) == [f EXCEPT !.pc = pc]

Running == frame.pc = "loop"

\* fitMethods["chroma-reduction"](coords, model), up to the head of its loop:
\* returns coords when the model has no target gamut or the colour is in gamut
EnterChromaReduction(boundaries) ==
    /\ ~Running
    /\ \E early \in BOOLEAN, g \in boundaries :
          LET f == [method |-> "chroma-reduction", pc |-> "loop", low |-> 0, high |-> 1,
                    den |-> 1, min_inGamut |-> TRUE, boundary |-> g]
          IN frame' = IF early THEN Left(f, "returned") ELSE f
    /\ UNCHANGED <<registry, cache, heap, ret, build, config, plugins, objectPrototype,
                   results>>

\* fitMethods["css-gamut-map"](coords, model), up to the head of its loop:
\* returns when the model has no target gamut, L >= 1, L <= 0, the colour is
\* in gamut or its clipped colour is closer than JND; min = 0, max = C
EnterCssGamutMap(chromas, boundaries) ==
    /\ ~Running
    /\ \E early \in BOOLEAN, C \in chromas, g \in boundaries :
          LET f == [method |-> "css-gamut-map", pc |-> "loop", low |-> 0, high |-> C[1],
                    den |-> C[2], min_inGamut |-> TRUE, boundary |-> g]
          IN frame' = IF early THEN Left(f, "returned")
                      ELSE IF InnerFitThrows THEN Left(f, "thrown")
                      ELSE f
    /\ InnerFitThrows \/ InnerFitReturns
    /\ UNCHANGED <<registry, cache, heap, ret, build, config, plugins, objectPrototype,
                   results>>

\* one iteration of while (C_high - C_low > epsilon) of chroma-reduction
IterateChromaReduction(f) ==
    IF CandidateInGamut(f) THEN frame' = RaiseLower(f)
    ELSE IF InnerFitThrows THEN frame' = Left(f, "thrown")
    ELSE \E close \in BOOLEAN :           \* deltaE < 2
            frame' = IF close THEN Left(f, "returned") ELSE LowerUpper(f)

\* one iteration of while (max - min > epsilon) of css-gamut-map
IterateCssGamutMap(f) ==
    IF f.min_inGamut /\ CandidateInGamut(f) THEN frame' = RaiseLower(f)
    ELSE IF InnerFitThrows THEN frame' = Left(f, "thrown")
    ELSE \E deltaE \in {"JND", "below", "above"} :
            frame' = CASE deltaE = "JND" -> Left(f, "returned")
                       [] deltaE = "below" -> [RaiseLower(f) EXCEPT !.min_inGamut = FALSE]
                       [] deltaE = "above" -> LowerUpper(f)

Iterate ==
    /\ Running /\ Wider(frame)
    /\ InnerFitThrows \/ InnerFitReturns
    /\ IF frame.method = "chroma-reduction" THEN IterateChromaReduction(frame)
       ELSE IterateCssGamutMap(frame)
    /\ UNCHANGED <<registry, cache, heap, ret, build, config, plugins, objectPrototype,
                   results>>

\* the loop condition fails: the method returns what follows the loop
ExitLoop ==
    /\ Running /\ ~Wider(frame)
    /\ frame' = Left(frame, "returned")
    /\ UNCHANGED <<registry, cache, heap, ret, build, config, plugins, objectPrototype,
                   results>>

\* Programs that set config.defaults.fit to clip, or leave the configuration
\* as it is, and fit colours with chroma-reduction and css-gamut-map: colours
\* whose chroma in oklch is 0, 1/100 or 1/20, in gamuts that the ray of the
\* colour leaves at chroma 0, at 1/300 or beyond 1.
FitClip == <<[k |-> "defaults", v |-> Obj(<<[k |-> "fit", v |-> Str("clip")]>>)]>>
Chromas == {<<0, 1>>, <<1, 100>>, <<1, 20>>}
Boundaries == {<<0, 1>>, <<1, 300>>, <<2, 1>>}

InitBisect == Init

NextBisect ==
    \/ ~Running /\ Configure({FitClip})
    \/ EnterChromaReduction(Boundaries)
    \/ EnterCssGamutMap(Chromas, Boundaries)
    \/ Iterate
    \/ ExitLoop

SpecBisect == InitBisect /\ [][NextBisect]_vars

\* a method that was entered runs on: its iterations and its exit are taken
LiveBisect == SpecBisect /\ WF_vars(Iterate) /\ WF_vars(ExitLoop)

\* the step is an iteration that stays in the loop
Iterated == Running /\ frame'.pc = "loop" /\ frame' # frame

\* the step leaves the loop through its condition
Exited == Running /\ frame'.pc = "returned" /\ frame'.den = frame.den /\ ~Wider(frame)

=============================================================================
